---- MODULE Spec2Model ----
(***************************************************************************)
(* Byte-level model of the IMAF/MP4 container codec: the byte encoders,    *)
(* the box builder and walker, the sample-table codec, the muxer           *)
(* (composeImaf) and the demuxer (readIma).                                *)
(*                                                                         *)
(* A buffer is a sequence of bytes (0..255); the byte at JavaScript index  *)
(* o is ab[o + 1].  A FourCC or any other string is the sequence of its    *)
(* character codes.  TLC integers are 32-bit signed, so every number of    *)
(* the model stays below 2^31.                                             *)
(***************************************************************************)
EXTENDS Integers, Sequences, FiniteSets, TLC

VARIABLES pc, arg, buf, ret

vars == <<pc, arg, buf, ret>>

(***************************************************************************)
(* Bounds of the model.                                                    *)
(***************************************************************************)
MaxDurations == 3
MaxSizes == 3
MaxChunks == 3
MaxPayload == 2
MaxAudio == 2
MaxSubs == 1
MaxFrames == 2
MaxPieces == 3
MaxList == 2

(***************************************************************************)
(* Generic helpers.                                                        *)
(***************************************************************************)
Min(a, b) == IF a < b THEN a ELSE b

SeqsUpTo(S, n) == UNION {[1..k -> S] : k \in 0..n}

RECURSIVE Repeat(_, _)
Repeat(x, n) == IF n <= 0 THEN <<>> ELSE <<x>> \o Repeat(x, n - 1)

RECURSIVE SumSeq(_)
SumSeq(s) == IF s = <<>> THEN 0 ELSE Head(s) + SumSeq(Tail(s))

RECURSIVE Flatten(_)
Flatten(ss) == IF ss = <<>> THEN <<>> ELSE Head(ss) \o Flatten(Tail(ss))

(***************************************************************************)
(* FourCC tags and fixed strings, as character codes.                      *)
(***************************************************************************)
T_ftyp == <<102, 116, 121, 112>>
T_mdat == <<109, 100, 97, 116>>
T_moov == <<109, 111, 111, 118>>
T_meta == <<109, 101, 116, 97>>
T_trak == <<116, 114, 97, 107>>
T_mdia == <<109, 100, 105, 97>>
T_minf == <<109, 105, 110, 102>>
T_stbl == <<115, 116, 98, 108>>
T_stsd == <<115, 116, 115, 100>>
T_stts == <<115, 116, 116, 115>>
T_stsc == <<115, 116, 115, 99>>
T_stsz == <<115, 116, 115, 122>>
T_stco == <<115, 116, 99, 111>>
T_co64 == <<99, 111, 54, 52>>
T_mdhd == <<109, 100, 104, 100>>
T_hdlr == <<104, 100, 108, 114>>
T_tkhd == <<116, 107, 104, 100>>
T_mvhd == <<109, 118, 104, 100>>
T_udta == <<117, 100, 116, 97>>
T_smhd == <<115, 109, 104, 100>>
T_nmhd == <<110, 109, 104, 100>>
T_dinf == <<100, 105, 110, 102>>
T_dref == <<100, 114, 101, 102>>
T_url == <<117, 114, 108, 32>>
T_xml == <<120, 109, 108, 32>>
T_mp4a == <<109, 112, 52, 97>>
T_lpcm == <<108, 112, 99, 109>>
T_esds == <<101, 115, 100, 115>>
T_chan == <<99, 104, 97, 110>>
T_tx3g == <<116, 120, 51, 103>>
T_ftab == <<102, 116, 97, 98>>
T_soun == <<115, 111, 117, 110>>
T_text == <<116, 101, 120, 116>>

(***************************************************************************)
(* ByteCodec (iso/bytes.ts).                                               *)
(***************************************************************************)
u8(n) == <<n % 256>>

u16(n) == <<(n \div 256) % 256, n % 256>>

u24(n) == <<(n \div 65536) % 256, (n \div 256) % 256, n % 256>>

\* The four big-endian bytes setUint32 stores: the value modulo 2^32.
Uint32Bytes(n) ==
  <<(n \div 16777216) % 256, (n \div 65536) % 256, (n \div 256) % 256, n % 256>>

\* u32 throws outside [0, 2^32-1]; every number of the model is below 2^31.
u32InRange(n) == n >= 0

u32(n) == Uint32Bytes(n)

str(s) == [i \in 1..Len(s) |-> s[i] % 128]

cstr(s) == s \o <<0>>

pad(n) == [i \in 1..n |-> 0]

full(version, flags) ==
  <<version % 256, (flags \div 65536) % 256, (flags \div 256) % 256, flags % 256>>

\* A plausible slip: the size field counts the payload only.
box_payloadsize(type, payload) == u32(Len(payload)) \o str(type) \o payload

box(type, payload) == u32(Len(payload) + 8) \o str(type) \o payload

(***************************************************************************)
(* Low-level readers (demux/imaf-reader.ts).                               *)
(***************************************************************************)
Unrepresentable == 1073741824 + 1073741823

be16(ab, o) == ab[o + 1] * 256 + ab[o + 2]

be32(ab, o) ==
  ab[o + 1] * 16777216 + ab[o + 2] * 65536 + ab[o + 3] * 256 + ab[o + 4]

\* hi * 2^32 + lo; a value with hi # 0 is larger than every buffer of the model.
be64(ab, o) == IF be32(ab, o) = 0 THEN be32(ab, o + 4) ELSE Unrepresentable

fourcc(ab, o) == SubSeq(ab, o + 1, o + 4)

u8v(ab, o, n) == SubSeq(ab, o + 1, o + n)

(***************************************************************************)
(* BoxWalker (demux/imaf-reader.ts, boxes).  The result is the list of     *)
(* descriptors yielded and whether the generator threw a RangeError (a     *)
(* DataView read past the end of the buffer).                              *)
(***************************************************************************)
\* A plausible slip: the walker checks size < hdr only and not end > to.
RECURSIVE boxesFrom_norangecheck(_, _, _)
boxesFrom_norangecheck(ab, off, to) ==
  IF off + 8 > to THEN [list |-> <<>>, threw |-> FALSE]
  ELSE IF off + 8 > Len(ab) THEN [list |-> <<>>, threw |-> TRUE]
  ELSE
    LET size0 == be32(ab, off)
        type == fourcc(ab, off + 4)
        ext == size0 = 1
    IN IF ext /\ off + 16 > Len(ab) THEN [list |-> <<>>, threw |-> TRUE]
       ELSE
         LET size1 == IF ext THEN be64(ab, off + 8) ELSE size0
             hdr == IF ext THEN 16 ELSE 8
             size == IF size1 = 0 THEN to - off ELSE size1
         IN IF size < hdr THEN [list |-> <<>>, threw |-> FALSE]
            ELSE
              LET b == [type |-> type, start |-> off, size |-> size,
                        header |-> hdr, end |-> off + size]
                  rest == boxesFrom_norangecheck(ab, off + size, to)
              IN [list |-> <<b>> \o rest.list, threw |-> rest.threw]

RECURSIVE boxesFrom(_, _, _)
boxesFrom(ab, off, to) ==
  IF off + 8 > to THEN [list |-> <<>>, threw |-> FALSE]
  ELSE IF off + 8 > Len(ab) THEN [list |-> <<>>, threw |-> TRUE]
  ELSE
    LET size0 == be32(ab, off)
        type == fourcc(ab, off + 4)
        ext == size0 = 1
    IN IF ext /\ off + 16 > Len(ab) THEN [list |-> <<>>, threw |-> TRUE]
       ELSE
         LET size1 == IF ext THEN be64(ab, off + 8) ELSE size0
             hdr == IF ext THEN 16 ELSE 8
             size == IF size1 = 0 THEN to - off ELSE size1
         IN \* size < hdr || end > to, with end = off + size
            IF size < hdr \/ size > to - off THEN [list |-> <<>>, threw |-> FALSE]
            ELSE
              LET b == [type |-> type, start |-> off, size |-> size,
                        header |-> hdr, end |-> off + size]
                  rest == boxesFrom(ab, off + size, to)
              IN [list |-> <<b>> \o rest.list, threw |-> rest.threw]

boxes(ab, from, to) == boxesFrom(ab, from, to)

payloadStartForChildren(b) ==
  IF b.type = T_meta THEN b.start + b.header + 4 ELSE b.start + b.header

kids(ab, parent) == boxes(ab, payloadStartForChildren(parent), parent.end).list

\* child: the first direct child of the type, as a list of zero or one box.
child(ab, parent, typ) ==
  LET ks == kids(ab, parent)
      hits == {i \in 1..Len(ks) : ks[i].type = typ}
  IN IF hits = {} THEN <<>>
     ELSE <<ks[CHOOSE i \in hits : \A j \in hits : i <= j]>>

(***************************************************************************)
(* SampleTableCodec: encoders (iso/audio.ts, iso/subtitle.ts).             *)
(***************************************************************************)
stsd(entry) == box(T_stsd, u32(0) \o u32(1) \o entry)

stts(frameCount, samplesPerFrame) ==
  box(T_stts, u32(0) \o u32(1) \o u32(frameCount) \o u32(samplesPerFrame))

\* A plausible slip: the run is extended without counting the sample.
RECURSIVE coalesce_nocount(_, _, _)
coalesce_nocount(durations, i, entries) ==
  IF i > Len(durations) THEN entries
  ELSE
    LET d == durations[i]
        n == Len(entries)
    IN IF n > 0 /\ entries[n].delta = d
       THEN coalesce_nocount(durations, i + 1, entries)
       ELSE coalesce_nocount(durations, i + 1, Append(entries, [count |-> 1, delta |-> d]))

RECURSIVE coalesce(_, _, _)
coalesce(durations, i, entries) ==
  IF i > Len(durations) THEN entries
  ELSE
    LET d == durations[i]
        n == Len(entries)
    IN IF n > 0 /\ entries[n].delta = d
       THEN coalesce(durations, i + 1, [entries EXCEPT ![n].count = @ + 1])
       ELSE coalesce(durations, i + 1, Append(entries, [count |-> 1, delta |-> d]))

stts_from_durations(durations) ==
  LET entries == coalesce(durations, 1, <<>>)
      table == Flatten([i \in 1..Len(entries) |->
                          Uint32Bytes(entries[i].count) \o Uint32Bytes(entries[i].delta)])
  IN box(T_stts, u32(0) \o u32(Len(entries)) \o table)

stsc == box(T_stsc, u32(0) \o u32(1) \o u32(1) \o u32(1) \o u32(1))

stsz(sizes) ==
  LET arr == Flatten([i \in 1..Len(sizes) |-> Uint32Bytes(sizes[i])])
  IN box(T_stsz, u32(0) \o u32(0) \o u32(Len(sizes)) \o arr)

stco(offsets) ==
  LET arr == Flatten([i \in 1..Len(offsets) |-> Uint32Bytes(offsets[i])])
  IN box(T_stco, u32(0) \o u32(Len(offsets)) \o arr)

(***************************************************************************)
(* SampleTableCodec: decoders (demux/imaf-reader.ts).                      *)
(***************************************************************************)
RECURSIVE readSttsRuns(_, _, _)
readSttsRuns(ab, o, n) ==
  IF n = 0 THEN <<>>
  ELSE Repeat(be32(ab, o + 4), be32(ab, o)) \o readSttsRuns(ab, o + 8, n - 1)

readStts(ab, b) ==
  LET o == b.start + b.header + 4
  IN readSttsRuns(ab, o + 4, be32(ab, o))

readStsc(ab, b) ==
  LET o == b.start + b.header + 4
      n == be32(ab, o)
  IN [i \in 1..n |->
        [first_chunk |-> be32(ab, o + 4 + 12 * (i - 1)),
         samples_per_chunk |-> be32(ab, o + 8 + 12 * (i - 1)),
         desc_index |-> be32(ab, o + 12 + 12 * (i - 1))]]

\* A plausible slip: the default-size form is not recognised.
readStsz_nodefault(ab, b, hint) ==
  LET o == b.start + b.header + 4
      n == be32(ab, o + 4)
      m == IF hint = <<>> THEN n ELSE hint[1]
  IN [i \in 1..m |-> IF o + 8 + 4 * i <= Len(ab) THEN be32(ab, o + 8 + 4 * (i - 1)) ELSE 0]

\* hint is <<>> when the caller passes none, <<m>> otherwise.
readStsz(ab, b, hint) ==
  LET o == b.start + b.header + 4
      defaultSize == be32(ab, o)
      n == be32(ab, o + 4)
      m == IF hint = <<>> THEN n ELSE hint[1]
  IN IF defaultSize # 0 THEN [i \in 1..m |-> defaultSize]
     ELSE [i \in 1..m |-> be32(ab, o + 8 + 4 * (i - 1))]

\* stco and co64 are lists of zero or one box.
readChunkOffsets(ab, stcoB, co64B) ==
  IF co64B # <<>> THEN
    LET o == co64B[1].start + co64B[1].header + 4
        n == be32(ab, o)
    IN [i \in 1..n |-> be64(ab, o + 4 + 8 * (i - 1))]
  ELSE IF stcoB = <<>> THEN <<>>
  ELSE
    LET o == stcoB[1].start + stcoB[1].header + 4
        n == be32(ab, o)
    IN [i \in 1..n |-> be32(ab, o + 4 + 4 * (i - 1))]

(***************************************************************************)
(* SampleOffsetResolver (demux/imaf-reader.ts, buildSampleOffsets).        *)
(***************************************************************************)
\* First loop: the index i only moves forward while the next entry's
\* first_chunk is <= c.
RECURSIVE advanceEntry(_, _, _)
advanceEntry(stscEntries, i, c) ==
  IF i + 1 < Len(stscEntries) /\ stscEntries[i + 2].first_chunk <= c
  THEN advanceEntry(stscEntries, i + 1, c)
  ELSE i

RECURSIVE spcTable(_, _, _, _)
spcTable(stscEntries, nChunks, c, i) ==
  IF c > nChunks THEN <<>>
  ELSE
    LET i2 == advanceEntry(stscEntries, i, c)
        v == IF i2 + 1 <= Len(stscEntries)
             THEN stscEntries[i2 + 1].samples_per_chunk ELSE 1
    IN <<v>> \o spcTable(stscEntries, nChunks, c + 1, i2)

\* A plausible slip: every sample of a chunk gets the chunk's own offset.
RECURSIVE placeInChunk_noadvance(_, _, _, _, _)
placeInChunk_noadvance(sizes, off, n, j, s) ==
  IF j < n /\ s < Len(sizes)
  THEN <<off>> \o placeInChunk_noadvance(sizes, off, n, j + 1, s + 1)
  ELSE <<>>

RECURSIVE placeInChunk(_, _, _, _, _)
placeInChunk(sizes, off, n, j, s) ==
  IF j < n /\ s < Len(sizes)
  THEN <<off>> \o placeInChunk(sizes, off + sizes[s + 1], n, j + 1, s + 1)
  ELSE <<>>

RECURSIVE placeChunks(_, _, _, _, _)
placeChunks(sizes, chunkOffsets, spc, c, s) ==
  IF c >= Len(chunkOffsets) THEN <<>>
  ELSE
    LET placed == placeInChunk(sizes, chunkOffsets[c + 1], spc[c + 1], 0, s)
    IN placed \o placeChunks(sizes, chunkOffsets, spc, c + 1, s + Len(placed))

\* A plausible slip: the chunks are taken to be contiguous, so that only the
\* first chunk offset is used.
buildSampleOffsets_contiguous(sizes, chunkOffsets, stscEntries) ==
  IF chunkOffsets = <<>> THEN <<>>
  ELSE placeInChunk(sizes, chunkOffsets[1],
                    SumSeq(spcTable(stscEntries, Len(chunkOffsets), 1, 0)), 0, 0)

buildSampleOffsets(sizes, chunkOffsets, stscEntries) ==
  placeChunks(sizes, chunkOffsets,
              spcTable(stscEntries, Len(chunkOffsets), 1, 0), 0, 0)

(***************************************************************************)
(* Input domains of the sample-table and box specifications.               *)
(***************************************************************************)
DurationSet == {0, 1, 1024}
SizeSet == {0, 3}
OffsetSet == {10, 50}
SpcSet == {1, 2}
TypeCharSet == {32, 97, 127}
PayloadByteSet == {0, 1, 255}

\* The only box of a buffer that holds exactly one box.
TopBox(ab) == boxes(ab, 0, Len(ab)).list[1]

(***************************************************************************)
(* stts: stts_from_durations, then readStts.                               *)
(***************************************************************************)
InitStts ==
  /\ pc = "stts_input"
  /\ arg \in SeqsUpTo(DurationSet, MaxDurations)
  /\ buf = <<>>
  /\ ret = <<>>

EncodeStts ==
  /\ pc = "stts_input"
  /\ buf' = stts_from_durations(arg)
  /\ pc' = "stts_built"
  /\ UNCHANGED <<arg, ret>>

DecodeStts ==
  /\ pc = "stts_built"
  /\ ret' = readStts(buf, TopBox(buf))
  /\ pc' = "stts_read"
  /\ UNCHANGED <<arg, buf>>

NextStts == EncodeStts \/ DecodeStts

SpecStts == InitStts /\ [][NextStts]_vars

\* C6: decoding with readStts the stts box that stts_from_durations builds
\* from a duration sequence D (the empty one included) returns exactly D.
C6_SttsRoundTrip == pc = "stts_read" => ret = arg

\* A sequence with a coalesced run followed by a different duration.
C6_Witness ==
  /\ pc = "stts_read"
  /\ Len(arg) = 3
  /\ arg[1] = arg[2]
  /\ arg[3] # arg[2]
  /\ be32(buf, 12) = 2
  /\ ret = arg

(***************************************************************************)
(* stsz: stsz, or a box in the default-size form, then readStsz.           *)
(***************************************************************************)
\* The default-size layout readStsz accepts: one size and a sample count.
stszDefaultForm(size, count) == box(T_stsz, u32(0) \o u32(size) \o u32(count))

InitStsz ==
  /\ pc = "stsz_input"
  /\ \/ \E S \in SeqsUpTo(SizeSet \cup {70000}, MaxSizes) :
          arg = [form |-> "sizes", sizes |-> S]
     \/ \E d \in (SizeSet \cup {70000}) \ {0}, n \in 0..MaxSizes :
          arg = [form |-> "default", size |-> d, count |-> n]
  /\ buf = <<>>
  /\ ret = <<>>

EncodeStsz ==
  /\ pc = "stsz_input"
  /\ arg.form = "sizes"
  /\ buf' = stsz(arg.sizes)
  /\ pc' = "stsz_built"
  /\ UNCHANGED <<arg, ret>>

DefaultFormStsz ==
  /\ pc = "stsz_input"
  /\ arg.form = "default"
  /\ buf' = stszDefaultForm(arg.size, arg.count)
  /\ pc' = "stsz_built"
  /\ UNCHANGED <<arg, ret>>

DecodeStsz ==
  /\ pc = "stsz_built"
  /\ ret' = readStsz(buf, TopBox(buf), <<>>)
  /\ pc' = "stsz_read"
  /\ UNCHANGED <<arg, buf>>

NextStsz == EncodeStsz \/ DefaultFormStsz \/ DecodeStsz

SpecStsz == InitStsz /\ [][NextStsz]_vars

\* C7: readStsz returns exactly S for the stsz box built from S, whether the
\* sizes are all equal or not, and returns n copies of the size for a box in
\* the default-size form.
C7_StszRoundTrip ==
  pc = "stsz_read" =>
    /\ arg.form = "sizes" => ret = arg.sizes
    /\ arg.form = "default" => ret = [i \in 1..arg.count |-> arg.size]

\* An all-equal size list of two or more samples has been decoded.
C7_Witness ==
  /\ pc = "stsz_read"
  /\ arg.form = "sizes"
  /\ Len(arg.sizes) >= 2
  /\ \A i \in 1..Len(arg.sizes) : arg.sizes[i] = 3
  /\ ret = arg.sizes

(***************************************************************************)
(* Sample offsets: buildSampleOffsets on sizes, chunk offsets and stsc.    *)
(***************************************************************************)
StrictlyIncreasing(es) ==
  \A i \in 1..(Len(es) - 1) : es[i].first_chunk < es[i + 1].first_chunk

StscLists ==
  {es \in SeqsUpTo([first_chunk : 1..MaxChunks, samples_per_chunk : SpcSet,
                    desc_index : {1}], MaxChunks) : StrictlyIncreasing(es)}

\* The entry list readStsc decodes from the muxer's stsc box.
TrivialStsc == readStsc(stsc, TopBox(stsc))

InitOffsets ==
  /\ pc = "offsets_input"
  /\ arg \in [sizes : SeqsUpTo(SizeSet, MaxSizes),
              chunkOffsets : SeqsUpTo(OffsetSet, MaxChunks),
              stsc : StscLists]
  /\ buf = <<>>
  /\ ret = <<>>

ResolveOffsets ==
  /\ pc = "offsets_input"
  /\ ret' = buildSampleOffsets(arg.sizes, arg.chunkOffsets, arg.stsc)
  /\ pc' = "offsets_built"
  /\ UNCHANGED <<arg, buf>>

NextOffsets == ResolveOffsets

SpecOffsets == InitOffsets /\ [][NextOffsets]_vars

\* C8: with the muxer's trivial stsc and one chunk offset per sample,
\* buildSampleOffsets returns exactly chunkOffsets.
C8_TrivialStscIdentity ==
  (/\ pc = "offsets_built"
   /\ arg.stsc = TrivialStsc
   /\ Len(arg.chunkOffsets) = Len(arg.sizes))
  => ret = arg.chunkOffsets

\* Three samples in three chunks that are not contiguous in the file.
C8_Witness ==
  /\ pc = "offsets_built"
  /\ arg.stsc = TrivialStsc
  /\ arg.sizes = <<3, 3, 0>>
  /\ arg.chunkOffsets = <<50, 10, 10>>
  /\ ret = <<50, 10, 10>>

\* The samples-per-chunk that governs chunk c: that of the entry with the
\* largest first_chunk <= c (of the first entry when there is none, 1 for an
\* empty table).
GoverningSpc(es, c) ==
  LET cands == {i \in 1..Len(es) : es[i].first_chunk <= c}
  IN IF es = <<>> THEN 1
     ELSE IF cands = {} THEN es[1].samples_per_chunk
     ELSE es[CHOOSE i \in cands :
               \A j \in cands : es[j].first_chunk <= es[i].first_chunk].samples_per_chunk

RECURSIVE SamplesBefore(_, _)
SamplesBefore(es, c) ==
  IF c <= 1 THEN 0 ELSE SamplesBefore(es, c - 1) + GoverningSpc(es, c - 1)

RECURSIVE SizesFrom(_, _, _)
SizesFrom(sizes, s, k) ==
  IF k = 0 THEN 0 ELSE sizes[s + 1] + SizesFrom(sizes, s + 1, k - 1)

\* C9: chunk c takes the samples-per-chunk of the entry with the largest
\* first_chunk <= c, holds that many consecutive samples (as far as sizes
\* lists them), and its k-th sample is at chunkOffsets[c] plus the sizes of the
\* chunk's earlier samples.
C9_GeneralStsc ==
  pc = "offsets_built" =>
    /\ Len(ret) = Min(Len(arg.sizes),
                      SamplesBefore(arg.stsc, Len(arg.chunkOffsets) + 1))
    /\ \A c \in 1..Len(arg.chunkOffsets) :
         \A k \in 0..(GoverningSpc(arg.stsc, c) - 1) :
           LET s == SamplesBefore(arg.stsc, c)
           IN s + k < Len(arg.sizes) =>
                ret[s + k + 1] = arg.chunkOffsets[c] + SizesFrom(arg.sizes, s, k)

\* Two entries: chunk 1 holds two samples, chunk 2 holds one.
C9_Witness ==
  /\ pc = "offsets_built"
  /\ Len(arg.stsc) = 2
  /\ arg.stsc[1].first_chunk = 1 /\ arg.stsc[1].samples_per_chunk = 2
  /\ arg.stsc[2].first_chunk = 2 /\ arg.stsc[2].samples_per_chunk = 1
  /\ arg.sizes = <<3, 3, 3>>
  /\ arg.chunkOffsets = <<10, 50>>
  /\ ret = <<10, 13, 50>>

(***************************************************************************)
(* Box framing: box, then the walker over the whole buffer.                *)
(***************************************************************************)
InitBox ==
  /\ pc = "box_input"
  /\ arg \in [type : [1..4 -> TypeCharSet],
              payload : SeqsUpTo(PayloadByteSet, MaxPayload)]
  /\ buf = <<>>
  /\ ret = <<>>

BuildBox ==
  /\ pc = "box_input"
  /\ buf' = box(arg.type, arg.payload)
  /\ pc' = "box_built"
  /\ UNCHANGED <<arg, ret>>

WalkBox ==
  /\ pc = "box_built"
  /\ ret' = boxes(buf, 0, Len(buf))
  /\ pc' = "box_walked"
  /\ UNCHANGED <<arg, buf>>

NextBox == BuildBox \/ WalkBox

SpecBox == InitBox /\ [][NextBox]_vars

\* C10: box(T, P) is len(P) + 8 bytes long, and walking it yields exactly one
\* descriptor: type T, start 0, size len(P) + 8, header size 8, end - start
\* equal to size.
C10_BoxFraming ==
  /\ pc \in {"box_built", "box_walked"} => Len(buf) = Len(arg.payload) + 8
  /\ pc = "box_walked" =>
       /\ ~ret.threw
       /\ Len(ret.list) = 1
       /\ ret.list[1].type = arg.type
       /\ ret.list[1].start = 0
       /\ ret.list[1].size = Len(arg.payload) + 8
       /\ ret.list[1].header = 8
       /\ ret.list[1].end - ret.list[1].start = ret.list[1].size

\* A box with a two-byte payload has been built and walked.
C10_Witness ==
  /\ pc = "box_walked"
  /\ Len(arg.payload) = 2
  /\ Len(ret.list) = 1
  /\ ret.list[1].size = 10

(***************************************************************************)
(* More strings, as character codes.                                       *)
(***************************************************************************)
T_grco == <<103, 114, 99, 111>>
T_grup == <<103, 114, 117, 112>>
T_prco == <<112, 114, 99, 111>>
T_prst == <<112, 114, 115, 116>>
T_ruco == <<114, 117, 99, 111>>
T_rusc == <<114, 117, 115, 99>>
T_rumx == <<114, 117, 109, 120>>
S_isom == <<105, 115, 111, 109>>
S_mp42 == <<109, 112, 52, 50>>
S_mp7t == <<109, 112, 55, 116>>
S_SoundHandler == <<83, 111, 117, 110, 100, 72, 97, 110, 100, 108, 101, 114>>
S_TimedText == <<84, 105, 109, 101, 100, 32, 84, 101, 120, 116>>
S_SansSerif == <<83, 97, 110, 115, 45, 83, 101, 114, 105, 102>>
S_All == <<65, 108, 108>>
S_AllTracks == <<65, 108, 108, 32, 116, 114, 97, 99, 107, 115>>
S_DefaultMix == <<68, 101, 102, 97, 117, 108, 116, 32, 77, 105, 120>>
S_AtLeast1 ==
  <<65, 116, 32, 108, 101, 97, 115, 116, 32, 49, 32, 101, 108, 101, 109, 101,
    110, 116, 32, 97, 99, 116, 105, 118, 101>>
S_Track1Volume ==
  <<84, 114, 97, 99, 107, 32, 49, 32, 118, 111, 108, 117, 109, 101, 32, 48,
    46, 48, 46, 46, 50, 46, 48>>
S_Song == <<83, 111, 110, 103>>
S_Album == <<65, 108, 98, 117, 109>>
S_Track == <<84, 114, 97, 99, 107, 32>>
S_SubtitleTrack == <<83, 117, 98, 116, 105, 116, 108, 101, 32, 84, 114, 97, 99, 107>>
S_AudioTrack == <<65, 117, 100, 105, 111, 32, 84, 114, 97, 99, 107, 32>>
S_und == <<117, 110, 100>>
S_eng == <<101, 110, 103>>

\* The decimal digits of a non-negative integer (template literal `${n}`).
RECURSIVE DecStr(_)
DecStr(n) == IF n < 10 THEN <<48 + n>> ELSE DecStr(n \div 10) \o <<48 + (n % 10)>>

\* Math.round(a * b / c) for c > 0: the nearest integer, halves upwards.
RoundMulDiv(a, b, c) == (2 * a * b + c) \div (2 * c)

i16(n) == <<(n \div 256) % 256, n % 256>>

vlen(n) ==
  IF n < 128 THEN u8(n)
  ELSE IF n < 16384 THEN <<128 + (n \div 128), n % 128>>
  ELSE <<128 + ((n \div 16384) % 128), 128 + ((n \div 128) % 128), n % 128>>

(***************************************************************************)
(* Audio sample entry and track boxes (iso/audio.ts).                      *)
(***************************************************************************)
esdsBox(asc, avgBitrate, maxBitrate) ==
  LET esDescrHeader == u8(3) \o vlen(3 + 5 + (2 + Len(asc)) + 3) \o u16(1) \o u8(0)
      dcdCore == u8(64) \o u8(21) \o u24(0) \o u32(maxBitrate) \o u32(avgBitrate)
      decConfigDescr == u8(4) \o vlen(Len(dcdCore) + (2 + Len(asc)) + 3) \o dcdCore
      dsi == u8(5) \o vlen(Len(asc)) \o asc
      sl == u8(6) \o vlen(1) \o u8(2)
  IN box(T_esds, u32(0) \o esDescrHeader \o decConfigDescr \o dsi \o sl)

mp4aSampleEntry(sampleRate, channels, asc) ==
  box(T_mp4a,
      pad(6) \o u16(1) \o u16(0) \o u16(0) \o u32(0)
      \o u16(IF channels = 0 THEN 2 ELSE channels) \o u16(16) \o u16(0) \o u16(0)
      \o u32(sampleRate * 65536)
      \o esdsBox(asc, 0, 0))

smhd == box(T_smhd, u32(0) \o u16(0) \o u16(0))

dinf_minimal_url_self ==
  box(T_dinf, box(T_dref, u32(0) \o u32(1) \o box(T_url, u32(1))))

hdlr_soun ==
  box(T_hdlr, u32(0) \o u32(0) \o str(T_soun) \o u32(0) \o u32(0) \o u32(0)
              \o cstr(S_SoundHandler))

MATRIX_UNITY ==
  u32(65536) \o u32(0) \o u32(0) \o u32(0) \o u32(65536) \o u32(0)
  \o u32(0) \o u32(0) \o u32(1073741824)

\* 'u','n','d' packed in 5 bits each.
mdhd(sampleRate, durationSamples) ==
  LET lang == ((21 * 1024) + (14 * 32) + 4) % 32768
  IN box(T_mdhd, u32(0) \o u32(0) \o u32(0) \o u32(sampleRate) \o u32(durationSamples)
                 \o u16(lang) \o u16(0))

tkhd(trackId, movieTimescale, trackDurationSamples, sampleRate) ==
  LET durationMv == RoundMulDiv(trackDurationSamples, movieTimescale, sampleRate)
  IN box(T_tkhd,
         u8(0) \o u8(0) \o u8(0) \o u8(7)
         \o u32(0) \o u32(0) \o u32(trackId) \o u32(0) \o u32(durationMv)
         \o u32(0) \o u32(0) \o u16(0) \o u16(0) \o u16(256) \o u16(0)
         \o MATRIX_UNITY \o u32(0) \o u32(0))

mvhd(movieTimescale, movieDurationMv) ==
  box(T_mvhd,
      u32(0) \o u32(0) \o u32(0) \o u32(movieTimescale) \o u32(movieDurationMv)
      \o u32(65536) \o u16(256) \o u16(0) \o u32(0) \o u32(0)
      \o MATRIX_UNITY \o pad(24) \o u32(4))

\* A plausible slip: a track without asc gets an entry with an empty config.
chooseSampleEntry_emptyasc(t) ==
  IF t.makeSampleEntry # <<>> THEN <<t.makeSampleEntry[1]>>
  ELSE <<mp4aSampleEntry(t.sampleRate,
                         IF t.channelConfig = <<>> THEN 2 ELSE t.channelConfig[1],
                         IF t.asc = <<>> THEN <<>> ELSE t.asc[1])>>

\* An optional field of a track is <<>> when absent and <<v>> when present.
\* The result is <<>> when chooseSampleEntry throws, <<entry>> otherwise.
chooseSampleEntry(t) ==
  IF t.makeSampleEntry # <<>> THEN <<t.makeSampleEntry[1]>>
  ELSE IF t.asc = <<>> THEN <<>>
  ELSE IF t.channelConfig = <<>> THEN <<>>
  ELSE <<mp4aSampleEntry(t.sampleRate, t.channelConfig[1], t.asc[1])>>

canBuildEntry(t) == chooseSampleEntry(t) # <<>>

stbl_for_track(t, chunkOffsets) ==
  LET entry == chooseSampleEntry(t)[1]
      spf == IF t.samplesPerFrame = <<>> THEN 1024 ELSE t.samplesPerFrame[1]
  IN box(T_stbl,
         stsd(entry) \o stts(t.frameCount, spf) \o stsc \o stsz(t.sizes)
         \o stco(chunkOffsets))

minf_for_track(t, chunkOffsets) ==
  box(T_minf, smhd \o dinf_minimal_url_self \o stbl_for_track(t, chunkOffsets))

mdia_for_track(t, chunkOffsets) ==
  box(T_mdia, mdhd(t.sampleRate, t.mdhdDuration) \o hdlr_soun
              \o minf_for_track(t, chunkOffsets))

(***************************************************************************)
(* Timed-text sample entry and track boxes (iso/subtitle.ts).              *)
(***************************************************************************)
tx3gSampleEntry ==
  LET sampleEntryHeader == pad(6) \o u16(1)
      display == u32(0) \o u8(1) \o u8(1) \o u8(255) \o u8(255) \o u8(255) \o u8(255)
      boxRecord == i16(0) \o i16(0) \o i16(0) \o i16(0)
      styleRecord == u16(0) \o u16(65535) \o u16(1) \o u8(0) \o u8(18)
                     \o u8(255) \o u8(255) \o u8(255) \o u8(255)
      ftab == box(T_ftab, u16(1) \o u16(1) \o u8(Len(S_SansSerif)) \o S_SansSerif)
  IN box(T_tx3g, sampleEntryHeader \o display \o boxRecord \o styleRecord \o ftab)

stsd_tx3g(entry) == box(T_stsd, u32(0) \o u32(1) \o entry)

nmhd == box(T_nmhd, u32(0))

hdlr_text ==
  box(T_hdlr, u32(0) \o u32(0) \o str(T_text) \o u32(0) \o u32(0) \o u32(0)
              \o S_TimedText \o <<0>>)

mdhd_tx3g(timescale, duration, lang) ==
  LET l == IF lang # <<>> /\ Len(lang[1]) = 3 THEN lang[1] ELSE S_und
      packed == (l[1] - 96) * 1024 + (l[2] - 96) * 32 + (l[3] - 96)
  IN box(T_mdhd, u32(0) \o u32(0) \o u32(0) \o u32(timescale) \o u32(duration)
                 \o u16(packed) \o u16(0))

stbl_for_tx3g(t, chunkOffsets) ==
  LET entry == IF t.makeSampleEntry # <<>> THEN t.makeSampleEntry[1] ELSE tx3gSampleEntry
  IN box(T_stbl,
         stsd_tx3g(entry) \o stts_from_durations(t.durations) \o stsc \o stsz(t.sizes)
         \o stco(chunkOffsets))

minf_for_tx3g(t, chunkOffsets) ==
  box(T_minf,
      nmhd \o box(T_dinf, box(T_dref, u32(0) \o u32(1) \o box(T_url, full(0, 1))))
      \o stbl_for_tx3g(t, chunkOffsets))

mdia_for_tx3g(t, chunkOffsets) ==
  box(T_mdia, mdhd_tx3g(t.timescale, t.mdhdDuration, t.language) \o hdlr_text
              \o minf_for_tx3g(t, chunkOffsets))

(***************************************************************************)
(* meta, xml, udta (iso/meta.ts) and the MPEG-7 track XML (iso/mpeg7.ts).  *)
(***************************************************************************)
hdlr_generic(handlerType, name) ==
  box(T_hdlr, u32(0) \o u32(0) \o str(handlerType) \o u32(0) \o u32(0) \o u32(0)
              \o cstr(name))

xmlBox(xml) == box(T_xml, xml)

metaBox(handlerType, name, children) ==
  box(T_meta, u32(0) \o hdlr_generic(handlerType, name) \o children)

udta(children) == box(T_udta, children)

\* The XML documents are opaque to the container codec: each template is
\* modelled by its <Title> element alone, the fixed markup around it left out.
mpeg7Title(title) ==
  <<60, 84, 105, 116, 108, 101, 62>> \o title \o <<60, 47, 84, 105, 116, 108, 101, 62>>

mpeg7AlbumXML(title) == mpeg7Title(title)

mpeg7SongXML(title) == mpeg7Title(title)

mpeg7TrackXML(title) == mpeg7Title(title)

(***************************************************************************)
(* IMAF extension boxes (iso/imaf.ts).  A volume is held in thousandths.   *)
(***************************************************************************)
Q8_8(vol) == (2 * vol * 256 + 1000) \div 2000

grupBox(g) ==
  box(T_grup,
      full(0, 2) \o u32(g.groupID) \o u16(Len(g.elementIDs))
      \o Flatten([i \in 1..Len(g.elementIDs) |-> Uint32Bytes(g.elementIDs[i])])
      \o u8(g.activationMode)
      \o (IF g.activationMode = 2
          THEN u16(IF g.activationCount = <<>> THEN 0 ELSE g.activationCount[1])
          ELSE <<>>)
      \o i16(Q8_8(g.referenceVolume))
      \o cstr(g.name) \o cstr(g.description))

grcoBox(groups) ==
  box(T_grco, u16(Len(groups)) \o Flatten([i \in 1..Len(groups) |-> grupBox(groups[i])]))

\* A plausible slip: only a list that is too long is rejected.
prstValid_atmost(p) == Len(p.perElementVolumeIndex) <= Len(p.elementIDs)

prstValid(p) == Len(p.perElementVolumeIndex) = Len(p.elementIDs)

prstBox(p) ==
  box(T_prst,
      full(0, IF p.flags = <<>> THEN 2 ELSE p.flags[1])
      \o u8(p.presetID) \o u8(Len(p.elementIDs))
      \o Flatten([i \in 1..Len(p.elementIDs) |-> Uint32Bytes(p.elementIDs[i])])
      \o u8(p.presetType) \o u8(p.globalVolumeIndex)
      \o [i \in 1..Len(p.perElementVolumeIndex) |-> p.perElementVolumeIndex[i] % 256]
      \o cstr(p.name))

prcoBox(presets, defaultPresetID) ==
  box(T_prco, u8(Len(presets)) \o u8(defaultPresetID)
              \o Flatten([i \in 1..Len(presets) |-> prstBox(presets[i])]))

ruscBox(r) ==
  LET common == full(0, 0) \o u16(r.id) \o u8(r.type) \o u32(r.elementID)
  IN IF r.type = 0 THEN box(T_rusc, common \o u16(r.min) \o u16(r.max) \o cstr(r.desc))
     ELSE IF r.type = 2 THEN box(T_rusc, common \o cstr(r.desc))
     ELSE box(T_rusc, common \o u32(r.keyElementID) \o cstr(r.desc))

rumxBox(r) ==
  LET common == full(0, 0) \o u16(r.id) \o u8(r.type) \o u32(r.elementID)
  IN IF r.type = 3
     THEN box(T_rumx, common \o i16(Q8_8(r.minVol)) \o i16(Q8_8(r.maxVol)) \o cstr(r.desc))
     ELSE box(T_rumx, common \o u32(r.keyElementID) \o cstr(r.desc))

rucoBox(selection, mixing) ==
  box(T_ruco, u16(Len(selection)) \o u16(Len(mixing))
              \o Flatten([i \in 1..Len(selection) |-> ruscBox(selection[i])])
              \o Flatten([i \in 1..Len(mixing) |-> rumxBox(mixing[i])]))

(***************************************************************************)
(* ContainerAssembler (mux/imaf-writer.ts, composeImaf).                   *)
(*                                                                         *)
(* An audio track is a record sampleRate, mdhdDuration, sizes, frameCount, *)
(* samplesPerFrame, frames, makeSampleEntry, asc, channelConfig; a         *)
(* timed-text track is a record kind, timescale, mdhdDuration, frames,     *)
(* sizes, durations, language, makeSampleEntry.  Optional fields are <<>>  *)
(* or <<value>>.                                                           *)
(***************************************************************************)
isSub(t) == "kind" \in DOMAIN t /\ t.kind = "tx3g"

\* (t as any).sampleRate ?? (t as any).timescale
trackTimescale(t) == IF "sampleRate" \in DOMAIN t THEN t.sampleRate ELSE t.timescale

MaxOf(S) == CHOOSE x \in S : \A y \in S : y <= x

\* The offsets of one track's samples from a cursor, advancing by each size.
RECURSIVE trackOffsets(_, _, _)
trackOffsets(sizes, i, cursor) ==
  IF i > Len(sizes) THEN <<>>
  ELSE <<cursor>> \o trackOffsets(sizes, i + 1, cursor + sizes[i])

RECURSIVE offsetsPerTrackFrom(_, _, _)
offsetsPerTrackFrom(ts, i, cursor) ==
  IF i > Len(ts) THEN <<>>
  ELSE <<trackOffsets(ts[i].sizes, 1, cursor)>>
       \o offsetsPerTrackFrom(ts, i + 1, cursor + SumSeq(ts[i].sizes))

ftypBox == box(T_ftyp, str(S_isom) \o u32(512) \o str(S_isom) \o str(S_mp42))

defaultGroup(elementIDs) ==
  [groupID |-> -2147483647, elementIDs |-> elementIDs, activationMode |-> 1,
   activationCount |-> <<>>, referenceVolume |-> 1000, name |-> S_All,
   description |-> S_AllTracks]

defaultPreset(elementIDs) ==
  [presetID |-> 1, elementIDs |-> elementIDs, presetType |-> 0,
   globalVolumeIndex |-> 100,
   perElementVolumeIndex |-> [i \in 1..Len(elementIDs) |-> 50],
   name |-> S_DefaultMix, flags |-> <<2>>]

defaultSelectionRule(groupID, n) ==
  [id |-> 1, type |-> 0, elementID |-> groupID, min |-> 1, max |-> n, desc |-> S_AtLeast1]

defaultMixingRule ==
  [id |-> 1, type |-> 3, elementID |-> 1, minVol |-> 0, maxVol |-> 2000,
   desc |-> S_Track1Volume]

\* includeImaf is [kind |-> "false"], [kind |-> "true"] or [kind |-> "spec",
\* spec |-> an ImafSpec whose optional sections are <<>> or <<list>>].
\* The three boxes, and whether prstBox threw on the way.
imafBoxes(tracks, includeImaf) ==
  LET elementIDs == [i \in 1..Len(tracks) |-> i]
  IN IF includeImaf.kind = "false"
     THEN [threw |-> FALSE, grco |-> <<>>, prco |-> <<>>, ruco |-> <<>>]
     ELSE IF includeImaf.kind = "spec"
     THEN
       LET spec == includeImaf.spec
           groups == IF spec.groups = <<>> THEN <<defaultGroup(elementIDs)>>
                     ELSE spec.groups[1]
           presets == IF spec.presets = <<>> THEN <<defaultPreset(elementIDs)>>
                      ELSE spec.presets[1]
           \* groups[0].groupID of an empty list throws a TypeError
           selThrows == spec.selectionRules = <<>> /\ groups = <<>>
           selectionRules ==
             IF spec.selectionRules = <<>>
             THEN <<defaultSelectionRule(groups[1].groupID, Len(elementIDs))>>
             ELSE spec.selectionRules[1]
           mixingRules == IF spec.mixingRules = <<>> THEN <<defaultMixingRule>>
                          ELSE spec.mixingRules[1]
           steps == IF spec.globalPresetSteps = <<>> THEN 1 ELSE spec.globalPresetSteps[1]
       IN IF selThrows \/ \E i \in 1..Len(presets) : ~prstValid(presets[i])
          THEN [threw |-> TRUE, grco |-> <<>>, prco |-> <<>>, ruco |-> <<>>]
          ELSE [threw |-> FALSE,
                grco |-> IF groups # <<>> THEN grcoBox(groups) ELSE <<>>,
                prco |-> IF presets # <<>> THEN prcoBox(presets, steps) ELSE <<>>,
                ruco |-> IF selectionRules # <<>> \/ mixingRules # <<>>
                         THEN rucoBox(selectionRules, mixingRules) ELSE <<>>]
     ELSE [threw |-> FALSE,
           grco |-> grcoBox(<<defaultGroup(elementIDs)>>),
           prco |-> prcoBox(<<defaultPreset(elementIDs)>>, 1),
           ruco |-> rucoBox(<<defaultSelectionRule(-2147483647, Len(elementIDs))>>,
                            <<defaultMixingRule>>)]

\* The trak of allTracks[i] in the single-pass build (audio and timed text).
trakOf(allTracks, i, offsets, movieTimescale, perTrackXml) ==
  LET t == allTracks[i]
      mdia == IF isSub(t) THEN mdia_for_tx3g(t, offsets) ELSE mdia_for_track(t, offsets)
      trackXml == IF isSub(t) THEN mpeg7TrackXML(S_SubtitleTrack)
                  ELSE IF i <= Len(perTrackXml) THEN perTrackXml[i]
                  ELSE mpeg7TrackXML(S_AudioTrack \o DecStr(i))
  IN box(T_trak,
         tkhd(i, movieTimescale, t.mdhdDuration, trackTimescale(t))
         \o mdia
         \o udta(metaBox(S_mp7t, S_Track \o DecStr(i), xmlBox(trackXml))))

\* The trak of tracks[i] in the two passes of layout "ftyp-moov-mdat" (audio
\* only); xmlBox of a missing perTrackXml entry encodes the empty string.
trakOfPass(tracks, i, offsets, movieTimescale, perTrackXml) ==
  LET t == tracks[i]
      mdia == mdia_for_track(t, offsets)
      tmeta == metaBox(S_mp7t, S_Track \o DecStr(i),
                       xmlBox(IF i <= Len(perTrackXml) THEN perTrackXml[i] ELSE <<>>))
  IN box(T_trak,
         tkhd(i, movieTimescale, t.mdhdDuration, t.sampleRate) \o mdia \o udta(tmeta))

\* A plausible slip: pass 2 starts its cursor at the start of the mdat box
\* instead of the start of its payload.
baseOffset2_noheader(ftypLen, moovDraftLen) == ftypLen + moovDraftLen

baseOffset2(ftypLen, moovDraftLen) == ftypLen + moovDraftLen + 8

\* A plausible slip: the first layout counts the ftyp box only.
baseOffset1_noheader(ftypLen) == ftypLen

baseOffset1(ftypLen) == ftypLen + 8

\* opts: layout, movieTimescale, includeImaf, subtitleTracks, albumXml,
\* songXml, perTrackXml (the XML options <<>> or <<value>>).
\* The result records whether composeImaf threw, the bytes returned, and the
\* values of its locals ftyp.length, moovDraft.length, the final moov's length,
\* the pass-2 base offset and the chunk offsets written into the final moov.
composeImaf(tracks, opts) ==
  LET layout == opts.layout
      movieTimescale == opts.movieTimescale
      subtitleTracks == opts.subtitleTracks
      allTracks == tracks \o subtitleTracks
      allPayload == Flatten([i \in 1..Len(allTracks) |-> Flatten(allTracks[i].frames)])
      mdat == box(T_mdat, allPayload)
      ftyp == ftypBox
      durationsMv == {RoundMulDiv(allTracks[i].mdhdDuration, movieTimescale,
                                  trackTimescale(allTracks[i])) : i \in 1..Len(allTracks)}
      movieDurationMv == MaxOf(durationsMv \cup {0})
      baseOffset == IF layout = "ftyp-mdat-moov" THEN baseOffset1(Len(ftyp)) ELSE 0
      offsetsPerTrack == offsetsPerTrackFrom(allTracks, 1, baseOffset)
      albumXml == IF opts.albumXml # <<>> THEN opts.albumXml[1] ELSE mpeg7AlbumXML(S_Album)
      songXml == IF opts.songXml # <<>> THEN opts.songXml[1] ELSE mpeg7SongXML(S_Song)
      perTrackXml == IF opts.perTrackXml # <<>> THEN opts.perTrackXml[1]
                     ELSE [i \in 1..Len(tracks) |-> mpeg7TrackXML(S_Track \o DecStr(i))]
      imaf == imafBoxes(tracks, opts.includeImaf)
      entryThrows == \E i \in 1..Len(tracks) : ~canBuildEntry(tracks[i])
      failed == [threw |-> TRUE, bytes |-> <<>>, ftypLen |-> Len(ftyp), moovDraftLen |-> 0,
                 moovLen |-> 0, base |-> 0, offsets |-> <<>>]
  IN IF imaf.threw \/ entryThrows THEN failed
     ELSE
       LET moovUdta == udta(metaBox(S_mp7t, S_Song, xmlBox(songXml)))
           albumMetaTop == metaBox(S_mp7t, S_Album, xmlBox(albumXml))
           mv == mvhd(movieTimescale, movieDurationMv)
           tail == moovUdta \o imaf.grco \o imaf.prco \o imaf.ruco
       IN IF layout = "ftyp-mdat-moov"
          THEN
            LET traks == Flatten([i \in 1..Len(allTracks) |->
                           trakOf(allTracks, i, offsetsPerTrack[i], movieTimescale,
                                  perTrackXml)])
                moov == box(T_moov, mv \o traks \o tail)
            IN [threw |-> FALSE, bytes |-> ftyp \o mdat \o albumMetaTop \o moov,
                ftypLen |-> Len(ftyp), moovDraftLen |-> Len(moov), moovLen |-> Len(moov),
                base |-> baseOffset, offsets |-> offsetsPerTrack]
          ELSE
            LET dummyOffsetsPerTrack ==
                  [i \in 1..Len(tracks) |-> [k \in 1..Len(tracks[i].sizes) |-> 0]]
                traksDraft == Flatten([i \in 1..Len(tracks) |->
                                trakOfPass(tracks, i, dummyOffsetsPerTrack[i],
                                           movieTimescale, perTrackXml)])
                moovDraft == box(T_moov, mv \o traksDraft \o tail)
                base2 == baseOffset2(Len(ftyp), Len(moovDraft))
                offsetsPerTrack2 == offsetsPerTrackFrom(tracks, 1, base2)
                traksFinal == Flatten([i \in 1..Len(tracks) |->
                                trakOfPass(tracks, i, offsetsPerTrack2[i],
                                           movieTimescale, perTrackXml)])
                moovFinal == box(T_moov, mv \o traksFinal \o tail)
            IN [threw |-> FALSE, bytes |-> ftyp \o moovFinal \o mdat \o albumMetaTop,
                ftypLen |-> Len(ftyp), moovDraftLen |-> Len(moovDraft),
                moovLen |-> Len(moovFinal), base |-> base2, offsets |-> offsetsPerTrack2]

(***************************************************************************)
(* ContainerReader (demux/imaf-reader.ts, readIma).                        *)
(***************************************************************************)
\* The result is <<>> or <<[off, size]>>.
RECURSIVE findBoxDeep(_, _, _, _)
findBoxDeep(ab, p, to, fourCC) ==
  IF p + 8 > to \/ p + 8 > Len(ab) THEN <<>>
  ELSE
    LET sz0 == be32(ab, p)
        typ == fourcc(ab, p + 4)
        ext == sz0 = 1 /\ p + 16 <= Len(ab)
        sz1 == IF ext THEN be64(ab, p + 8) ELSE sz0
        hdr == IF sz0 = 1 THEN 16 ELSE 8
        sz == IF sz1 = 0 THEN to - p ELSE sz1
    IN IF sz < hdr \/ sz > to - p THEN <<>>
       ELSE IF typ = fourCC THEN <<[off |-> p, size |-> sz]>>
       ELSE
         LET hit == findBoxDeep(ab, p + hdr, p + sz, fourCC)
         IN IF hit # <<>> THEN hit ELSE findBoxDeep(ab, p + sz, to, fourCC)

mdhdInfo(ab, b) ==
  LET ver == ab[b.start + b.header + 1]
      o == b.start + b.header + 4 + (IF ver = 1 THEN 16 ELSE 8)
      timescale == be32(ab, o)
      duration == IF ver = 1 THEN be64(ab, o + 4) ELSE be32(ab, o + 4)
      lang == be16(ab, o + 4 + (IF ver = 1 THEN 8 ELSE 4))
  IN [timescale |-> timescale, duration |-> duration,
      language |-> <<((lang \div 1024) % 32) + 96, ((lang \div 32) % 32) + 96,
                     (lang % 32) + 96>>]

handlerType(ab, b) == fourcc(ab, b.start + b.header + 8)

\* The first stsd entry: <<>> when readStsdEntry returns undefined.  The
\* optional fields of the entry are <<>> or <<value>>.
readStsdEntry(ab, b) ==
  LET off == b.start + b.header + 8
  IN IF off + 8 > b.end THEN <<>>
     ELSE
       LET size0 == be32(ab, off)
           type == fourcc(ab, off + 4)
           size == IF size0 = 1 THEN be64(ab, off + 8) ELSE size0
           hdr == IF size0 = 1 THEN 16 ELSE 8
           bytes == u8v(ab, off, size)
           plain == [type |-> type, bytes |-> bytes, esds |-> <<>>,
                     channelcount |-> <<>>, samplesize |-> <<>>, samplerate |-> <<>>]
       IN IF type # T_mp4a /\ type # T_lpcm THEN <<plain>>
          ELSE
            LET base == off + hdr + 8
                version == be16(ab, base)
                fieldsSize == IF version = 1 THEN 36 ELSE IF version = 2 THEN 56 ELSE 20
                ch == be16(ab, base + 8)
                ss == be16(ab, base + 10)
                sr == be32(ab, base + 16) \div 65536
                entryEnd == off + size
                esdsHit == findBoxDeep(ab, base + fieldsSize, entryEnd, T_esds)
                chanHit == findBoxDeep(ab, base + fieldsSize, entryEnd, T_chan)
                chanNum == IF chanHit = <<>> THEN 0 ELSE be32(ab, chanHit[1].off + 8)
            IN <<[type |-> type, bytes |-> bytes,
                  esds |-> IF esdsHit = <<>> THEN <<>>
                           ELSE <<u8v(ab, esdsHit[1].off, esdsHit[1].size)>>,
                  channelcount |-> IF ch # 0 THEN <<ch>>
                                   ELSE IF chanNum # 0 THEN <<chanNum>> ELSE <<>>,
                  samplesize |-> IF ss # 0 THEN <<ss>> ELSE <<>>,
                  samplerate |-> IF sr # 0 THEN <<sr>> ELSE <<>>]>>

\* The length loop of parseEsdsAsc: up to four bytes of seven bits; a byte past
\* the end reads as undefined and ends the loop.
RECURSIVE esdsLen(_, _, _, _)
esdsLen(esds, o, i, len) ==
  IF i >= 4 THEN [len |-> len, o |-> o]
  ELSE
    LET b == IF o < Len(esds) THEN esds[o + 1] ELSE 0
        len2 == len * 128 + (b % 128)
    IN IF b < 128 THEN [len |-> len2, o |-> o + 1]
       ELSE esdsLen(esds, o + 1, i + 1, len2)

RECURSIVE parseEsdsFrom(_, _, _)
parseEsdsFrom(esds, o, ot) ==
  IF o + 2 > Len(esds) THEN [asc |-> <<>>, ot |-> ot]
  ELSE
    LET tag == esds[o + 1]
        l == esdsLen(esds, o + 1, 0, 0)
        ot2 == IF tag = 4 /\ l.len >= 1
               THEN (IF l.o < Len(esds) THEN <<esds[l.o + 1]>> ELSE <<>>)
               ELSE ot
    IN IF tag = 5
       THEN [asc |-> <<SubSeq(esds, Min(l.o, Len(esds)) + 1, Min(l.o + l.len, Len(esds)))>>,
             ot |-> ot2]
       ELSE parseEsdsFrom(esds, l.o + l.len, ot2)

\* esds is <<>> or <<bytes>>; asc and ot of the result are <<>> or <<value>>.
parseEsdsAsc(esds) ==
  IF esds = <<>> THEN [asc |-> <<>>, ot |-> <<>>]
  ELSE parseEsdsFrom(esds[1], 12, <<>>)

\* The view of sample i: at its resolved offset, or at offset 0 when the
\* resolver placed fewer samples than stsz lists (offs[i] is undefined).
sampleView(ab, offs, sizes, i) ==
  u8v(ab, IF i <= Len(offs) THEN offs[i] ELSE 0, sizes[i])

sampleViewThrows(ab, offs, sizes, i) ==
  (IF i <= Len(offs) THEN offs[i] ELSE 0) + sizes[i] > Len(ab)

\* The boxes one iteration of the loop over traks looks up: <<>> when a
\* required one is missing (continue), otherwise <<record>> with stco and co64
\* as child returns them (<<>> or <<box>>).
trakBoxesIn(ab, mdia, stblL) ==
  IF stblL = <<>> THEN <<>>
  ELSE IF child(ab, mdia, T_hdlr) = <<>> \/ child(ab, mdia, T_mdhd) = <<>>
          \/ \E t \in {T_stsd, T_stts, T_stsc, T_stsz} : child(ab, stblL[1], t) = <<>>
  THEN <<>>
  ELSE <<[hdlr |-> child(ab, mdia, T_hdlr)[1], mdhd |-> child(ab, mdia, T_mdhd)[1],
          stsd |-> child(ab, stblL[1], T_stsd)[1], stts |-> child(ab, stblL[1], T_stts)[1],
          stsc |-> child(ab, stblL[1], T_stsc)[1], stsz |-> child(ab, stblL[1], T_stsz)[1],
          stco |-> child(ab, stblL[1], T_stco), co64 |-> child(ab, stblL[1], T_co64)]>>

trakBoxesOf(ab, mdia, minfL) ==
  trakBoxesIn(ab, mdia, IF minfL = <<>> THEN <<>> ELSE child(ab, minfL[1], T_stbl))

trakBoxesFrom(ab, mdiaL) ==
  IF mdiaL = <<>> THEN <<>> ELSE trakBoxesOf(ab, mdiaL[1], child(ab, mdiaL[1], T_minf))

trakBoxes(ab, trak) == trakBoxesFrom(ab, child(ab, trak, T_mdia))

\* The dump pushed for one trak, from its handler, mdhd fields, sample tables,
\* resolved offsets, sample views and first stsd entry.
trakDump(htype, info, durations, sizes, offs, samples, entry) ==
  IF htype = T_soun
  THEN [what |-> "audio",
        kind |-> IF entry.type = T_mp4a /\ parseEsdsAsc(entry.esds).ot = <<107>> THEN "mp3"
                 ELSE IF entry.type = T_mp4a THEN "aac"
                 ELSE IF entry.type = T_lpcm THEN "lpcm"
                 ELSE "raw",
        frames |-> samples, sizes |-> sizes,
        asc |-> parseEsdsAsc(entry.esds).asc, ot |-> parseEsdsAsc(entry.esds).ot,
        first2 |-> IF Len(samples) >= 1 /\ Len(samples[1]) >= 2
                   THEN <<samples[1][1] * 256 + samples[1][2]>>
                   ELSE <<>>,
        offs |-> offs, durations |-> durations]
  ELSE IF htype = T_text \/ entry.type = T_tx3g
  THEN [what |-> "text", sampleEntry |-> entry.bytes, sizes |-> sizes,
        durations |-> durations, timescale |-> info.timescale,
        language |-> info.language, frames |-> samples, offs |-> offs]
  ELSE [what |-> "none"]

\* what is "skip" (continue), "throw" (a RangeError from a sample view),
\* "audio", "text" or "none" (a handler that is neither).  offs and durations
\* are the iteration's locals of these names.
trakSamples(ab, htype, info, durations, sizes, offs, entryL) ==
  IF \E i \in 1..Len(sizes) : sampleViewThrows(ab, offs, sizes, i)
  THEN [what |-> "throw"]
  ELSE IF entryL = <<>> THEN [what |-> "skip"]
  ELSE trakDump(htype, info, durations, sizes, offs,
                [i \in 1..Len(sizes) |-> sampleView(ab, offs, sizes, i)], entryL[1])

trakTables(ab, bx, sizes, chunkOffsets, stscE) ==
  trakSamples(ab, handlerType(ab, bx.hdlr), mdhdInfo(ab, bx.mdhd), readStts(ab, bx.stts),
              sizes, buildSampleOffsets(sizes, chunkOffsets, stscE),
              readStsdEntry(ab, bx.stsd))

readTrakFrom(ab, bxL) ==
  IF bxL = <<>> THEN [what |-> "skip"]
  ELSE trakTables(ab, bxL[1], readStsz(ab, bxL[1].stsz, <<>>),
                  readChunkOffsets(ab, bxL[1].stco, bxL[1].co64),
                  readStsc(ab, bxL[1].stsc))

\* One iteration of the loop over traks.
readTrak(ab, trak) == readTrakFrom(ab, trakBoxes(ab, trak))

RECURSIVE SelectSeq2(_, _)
SelectSeq2(seq, w) ==
  IF seq = <<>> THEN <<>>
  ELSE (IF Head(seq).what = w THEN <<Head(seq)>> ELSE <<>>) \o SelectSeq2(Tail(seq), w)

\* A plausible slip: a trak that cannot be read aborts the whole read.
readTraks_abort(dumps) ==
  IF \E i \in 1..Len(dumps) : dumps[i].what \in {"throw", "skip"}
  THEN [error |-> "RangeError", audio |-> <<>>, texts |-> <<>>]
  ELSE [error |-> "none", audio |-> SelectSeq2(dumps, "audio"),
        texts |-> SelectSeq2(dumps, "text")]

\* The two lists readIma returns, or the RangeError of a sample view.
readTraks(dumps) ==
  IF \E i \in 1..Len(dumps) : dumps[i].what = "throw"
  THEN [error |-> "RangeError", audio |-> <<>>, texts |-> <<>>]
  ELSE [error |-> "none", audio |-> SelectSeq2(dumps, "audio"),
        texts |-> SelectSeq2(dumps, "text")]

readImaFrom(ab, traks) == readTraks([i \in 1..Len(traks) |-> readTrak(ab, traks[i])])

firstMoov(top) ==
  SelectSeq(top.list, LAMBDA b : b.type = T_moov)

\* error is "none", "moov not found" or "RangeError"; audio and texts are the
\* two lists readIma returns.
readImaTop(ab, top, moovs) ==
  IF moovs = <<>>
  THEN [error |-> IF top.threw THEN "RangeError" ELSE "moov not found",
        audio |-> <<>>, texts |-> <<>>]
  ELSE readImaFrom(ab, SelectSeq(kids(ab, moovs[1]), LAMBDA k : k.type = T_trak))

readImaIn(ab, top) == readImaTop(ab, top, firstMoov(top))

readIma(ab) == readImaIn(ab, boxes(ab, 0, Len(ab)))

(***************************************************************************)
(* Muxing then demuxing: composeImaf in either layout on the same tracks,  *)
(* then readIma on each container produced.                                *)
(*                                                                         *)
(* arg holds the caller's tracks and options; buf maps each layout already *)
(* composed to composeImaf's result; ret maps each layout already demuxed  *)
(* to readIma's result.                                                    *)
(***************************************************************************)
Layouts == {"ftyp-mdat-moov", "ftyp-moov-mdat"}
FrameSizeSet == {0, 2}

\* AudioSpecificConfig of AAC-LC, 8 kHz, mono.
Asc == <<21, 136>>

Rot(L, k) ==
  IF L = <<>> THEN <<>>
  ELSE [i \in 1..Len(L) |-> L[((i - 1 + k) % Len(L)) + 1]]

\* The bytes of frame i of track t: distinct across tracks, frames and positions.
FrameBytes(t, i, n) == [k \in 1..n |-> (t * 64 + i * 8 + k) % 256]

FramesOf(t, sizes) == [i \in 1..Len(sizes) |-> FrameBytes(t, i, sizes[i])]

\* An AAC track as the ADTS parser and buildTracksFromInputs hand it over: odd
\* tracks carry makeSampleEntry, even tracks only the legacy fields; a bare
\* track carries no makeSampleEntry and lacks asc (odd) or channelConfig (even).
AudioTrack(t, sizes, bare) ==
  [sampleRate |-> 8000, mdhdDuration |-> Len(sizes) * 1024, sizes |-> sizes,
   frameCount |-> Len(sizes), samplesPerFrame |-> <<>>, frames |-> FramesOf(t, sizes),
   makeSampleEntry |-> IF t % 2 = 1 /\ ~bare THEN <<mp4aSampleEntry(8000, 1, Asc)>>
                       ELSE <<>>,
   asc |-> IF bare /\ t % 2 = 1 THEN <<>> ELSE <<Asc>>,
   channelConfig |-> IF bare /\ t % 2 = 0 THEN <<>> ELSE <<1>>]

\* A timed-text track as buildTx3gTrack hands it over.
SubTrack(t, sizes) ==
  LET durations == [i \in 1..Len(sizes) |-> 5 + sizes[i]]
  IN [kind |-> "tx3g", timescale |-> 1000, mdhdDuration |-> SumSeq(durations),
      frames |-> FramesOf(t, sizes), sizes |-> sizes, durations |-> durations,
      language |-> IF t % 2 = 1 THEN <<S_eng>> ELSE <<>>,
      makeSampleEntry |-> <<tx3gSampleEntry>>]

NoResult == [l \in {} |-> <<>>]

Init ==
  /\ pc = "imaf"
  /\ \E nA \in 0..MaxAudio, nS \in 0..MaxSubs,
        La \in SeqsUpTo(FrameSizeSet, MaxFrames), Ls \in SeqsUpTo(FrameSizeSet, MaxFrames),
        imaf \in {"false", "true"} :
     \E bare \in {0, nA} :
       arg = [tracks |-> [i \in 1..nA |-> AudioTrack(i, Rot(La, i - 1), i = bare)],
              opts |-> [movieTimescale |-> 1000,
                        includeImaf |-> [kind |-> imaf],
                        subtitleTracks |-> [j \in 1..nS |-> SubTrack(nA + j, Rot(Ls, j - 1))],
                        albumXml |-> <<>>, songXml |-> <<>>, perTrackXml |-> <<>>]]
  /\ buf = NoResult
  /\ ret = NoResult

Compose(layout) ==
  /\ layout \notin DOMAIN buf
  /\ buf' = buf @@ (layout :> composeImaf(arg.tracks, [layout |-> layout] @@ arg.opts))
  /\ UNCHANGED <<pc, arg, ret>>

ReadIma(layout) ==
  /\ layout \in DOMAIN buf
  /\ ~buf[layout].threw
  /\ layout \notin DOMAIN ret
  /\ ret' = ret @@ (layout :> readIma(buf[layout].bytes))
  /\ UNCHANGED <<pc, arg, buf>>

Next == \E layout \in Layouts : Compose(layout) \/ ReadIma(layout)

Spec == Init /\ [][Next]_vars

(***************************************************************************)
(* What the claims read off a container: the traks of its moov, the track  *)
(* ID in each tkhd, the handler of each trak, and the top-level mdat.      *)
(***************************************************************************)
NonEmpty(frames) == \E k \in 1..Len(frames) : frames[k] # <<>>

TopOfType(ab, type) == SelectSeq(boxes(ab, 0, Len(ab)).list, LAMBDA b : b.type = type)

TraksOf(ab) == SelectSeq(kids(ab, TopOfType(ab, T_moov)[1]), LAMBDA b : b.type = T_trak)

TrackIdOf(ab, trak) ==
  LET tk == child(ab, trak, T_tkhd)[1] IN be32(ab, tk.start + tk.header + 12)

HandlerOf(ab, trak) ==
  handlerType(ab, child(ab, child(ab, trak, T_mdia)[1], T_hdlr)[1])

\* Every offset is where the previous sample ends, the first one at start.
Chained(offs, sizes, start) ==
  /\ Len(offs) = Len(sizes)
  /\ \A k \in 1..Len(offs) :
       offs[k] = IF k = 1 THEN start ELSE offs[k - 1] + sizes[k - 1]

SameSamples(dump, t) == dump.sizes = t.sizes /\ dump.frames = t.frames

\* The demuxed tracks, audio first and then timed text.
Dumps(r) == r.audio \o r.texts

AllOffs(r) == Flatten([i \in 1..Len(Dumps(r)) |-> Dumps(r)[i].offs])

AllSizes(r) == Flatten([i \in 1..Len(Dumps(r)) |-> Dumps(r)[i].sizes])

\* C1: muxing audio and timed-text tracks with layout "ftyp-mdat-moov" and
\* demuxing with readIma returns every track with the same sizes and exactly
\* the bytes of its frames; the first recorded offset is len(ftyp)+8 and each
\* later offset is the previous offset plus the previous size, in track and
\* then frame order.
C1_DefaultLayoutRoundTrip ==
  "ftyp-mdat-moov" \in DOMAIN ret =>
    LET r == ret["ftyp-mdat-moov"]
        subs == arg.opts.subtitleTracks
    IN /\ r.error = "none"
       /\ Len(r.audio) = Len(arg.tracks)
       /\ Len(r.texts) = Len(subs)
       /\ \A i \in 1..Len(arg.tracks) : SameSamples(r.audio[i], arg.tracks[i])
       /\ \A j \in 1..Len(subs) : SameSamples(r.texts[j], subs[j])
       /\ Chained(AllOffs(r), AllSizes(r), buf["ftyp-mdat-moov"].ftypLen + 8)

C1_Witness ==
  /\ "ftyp-mdat-moov" \in DOMAIN ret
  /\ Len(arg.tracks) >= 2
  /\ \A i \in 1..Len(arg.tracks) : NonEmpty(arg.tracks[i].frames)
  /\ Len(arg.opts.subtitleTracks) >= 1
  /\ NonEmpty(arg.opts.subtitleTracks[1].frames)
  /\ Len(ret["ftyp-mdat-moov"].texts) = 1

\* C2: muxing the same audio and timed-text tracks in both layouts and
\* demuxing both outputs yields the same number of audio and of timed-text
\* tracks, in the same order, with identical sample bytes, sizes and durations.
C2_LayoutEquivalence ==
  DOMAIN ret = Layouts =>
    LET a == ret["ftyp-mdat-moov"]
        b == ret["ftyp-moov-mdat"]
    IN /\ a.error = b.error
       /\ Len(a.audio) = Len(b.audio)
       /\ Len(a.texts) = Len(b.texts)
       /\ \A i \in 1..Len(a.audio) :
            /\ a.audio[i].frames = b.audio[i].frames
            /\ a.audio[i].sizes = b.audio[i].sizes
            /\ a.audio[i].durations = b.audio[i].durations
       /\ \A j \in 1..Len(a.texts) :
            /\ a.texts[j].frames = b.texts[j].frames
            /\ a.texts[j].sizes = b.texts[j].sizes
            /\ a.texts[j].durations = b.texts[j].durations

\* C3: in layout "ftyp-moov-mdat" the final moov is exactly as long as the
\* draft moov, so base = len(ftyp) + len(draftMoov) + 8 is the position of the
\* first mdat payload byte in the returned file, and every chunk offset written
\* in pass 2 is the position of the first byte of its sample.
C3_TwoPassFixedPoint ==
  ("ftyp-moov-mdat" \in DOMAIN buf /\ ~buf["ftyp-moov-mdat"].threw) =>
    LET c == buf["ftyp-moov-mdat"]
        mdat == TopOfType(c.bytes, T_mdat)[1]
        inSizes == Flatten([i \in 1..Len(arg.tracks) |-> arg.tracks[i].sizes])
    IN /\ c.moovLen = c.moovDraftLen
       /\ TopOfType(c.bytes, T_moov)[1].size = c.moovDraftLen
       /\ c.base = c.ftypLen + c.moovDraftLen + 8
       /\ c.base = mdat.start + mdat.header
       /\ Chained(Flatten(c.offsets), inSizes, mdat.start + mdat.header)
       /\ \A i \in 1..Len(arg.tracks) : \A k \in 1..Len(arg.tracks[i].frames) :
            u8v(c.bytes, c.offsets[i][k], arg.tracks[i].sizes[k]) = arg.tracks[i].frames[k]
       /\ "ftyp-moov-mdat" \in DOMAIN ret =>
            /\ Len(ret["ftyp-moov-mdat"].audio) = Len(arg.tracks)
            /\ \A i \in 1..Len(arg.tracks) :
                 ret["ftyp-moov-mdat"].audio[i].offs = c.offsets[i]

C3_Witness ==
  /\ "ftyp-moov-mdat" \in DOMAIN ret
  /\ Len(arg.tracks) >= 2
  /\ \A i \in 1..Len(arg.tracks) :
       Len(arg.tracks[i].frames) >= 2 /\ NonEmpty(arg.tracks[i].frames)
  /\ arg.opts.includeImaf.kind = "true"
  /\ buf["ftyp-moov-mdat"].offsets[2][2] > buf["ftyp-moov-mdat"].base

\* C4: whenever composeImaf returns, in either layout, the moov of the output
\* holds exactly one trak per input track, audio tracks first and then
\* timed-text tracks, each in input order, with track IDs 1..n.
C4_NeverDropsTrack ==
  \A l \in DOMAIN buf :
    ~buf[l].threw =>
      LET ab == buf[l].bytes
          traks == TraksOf(ab)
          nA == Len(arg.tracks)
          n == nA + Len(arg.opts.subtitleTracks)
      IN /\ Len(traks) = n
         /\ \A i \in 1..Len(traks) :
              /\ TrackIdOf(ab, traks[i]) = i
              /\ HandlerOf(ab, traks[i]) = IF i <= nA THEN T_soun ELSE T_text

\* C5: in every container the muxer produces, in either layout, the byte
\* ranges [offset, offset+size) of the sample tables of all tracks do not
\* overlap, follow track order and then frame order, lie inside the mdat
\* payload and together cover that payload exactly.
C5_RangesCoverMdat ==
  \A l \in DOMAIN ret :
    LET r == ret[l]
        mdat == TopOfType(buf[l].bytes, T_mdat)[1]
    IN /\ r.error = "none"
       /\ Chained(AllOffs(r), AllSizes(r), mdat.start + mdat.header)
       /\ mdat.start + mdat.header + SumSeq(AllSizes(r)) = mdat.end

(***************************************************************************)
(* Walking arbitrary bytes: boxes and findBoxDeep over buffers made of box *)
(* headers of every size form, valid or not, cut at the end.               *)
(*                                                                         *)
(* arg holds the header shapes and the cut, buf the bytes, ret the result  *)
(* of the walk or search with the range it was given.                      *)
(***************************************************************************)
\* A header shape: the 32-bit size field s, the 64-bit size field e (<<>> or
\* <<hi, lo>>) and p bytes of zero payload.
WalkPieces ==
  {[s |-> 0, e |-> <<>>, p |-> 0], [s |-> 7, e |-> <<>>, p |-> 0],
   [s |-> 8, e |-> <<>>, p |-> 0], [s |-> 8, e |-> <<>>, p |-> 4],
   [s |-> 12, e |-> <<>>, p |-> 4], [s |-> 112, e |-> <<>>, p |-> 0],
   [s |-> 1, e |-> <<>>, p |-> 0], [s |-> 1, e |-> <<0, 0>>, p |-> 0],
   [s |-> 1, e |-> <<0, 15>>, p |-> 0], [s |-> 1, e |-> <<0, 16>>, p |-> 0],
   [s |-> 1, e |-> <<0, 24>>, p |-> 0], [s |-> 1, e |-> <<1, 0>>, p |-> 0]}

CutSet == {0, 1, 8}

PieceBytes(pc0, i) ==
  Uint32Bytes(pc0.s) \o (IF i % 2 = 1 THEN T_moov ELSE T_trak)
  \o (IF pc0.e = <<>> THEN <<>> ELSE Uint32Bytes(pc0.e[1]) \o Uint32Bytes(pc0.e[2]))
  \o pad(pc0.p)

PiecesBytes(ps) == Flatten([i \in 1..Len(ps) |-> PieceBytes(ps[i], i)])

\* Whether findBoxDeep throws a RangeError (a DataView read past the end of
\* the buffer) before it returns.
RECURSIVE findBoxDeepThrows(_, _, _, _)
findBoxDeepThrows(ab, p, to, fourCC) ==
  IF p + 8 > to THEN FALSE
  ELSE IF p + 8 > Len(ab) THEN TRUE
  ELSE IF be32(ab, p) = 1 /\ p + 16 > Len(ab) THEN TRUE
  ELSE
    LET sz0 == be32(ab, p)
        sz1 == IF sz0 = 1 THEN be64(ab, p + 8) ELSE sz0
        hdr == IF sz0 = 1 THEN 16 ELSE 8
        sz == IF sz1 = 0 THEN to - p ELSE sz1
    IN IF sz < hdr \/ sz > to - p THEN FALSE
       ELSE IF fourcc(ab, p + 4) = fourCC THEN FALSE
       ELSE \/ findBoxDeepThrows(ab, p + hdr, p + sz, fourCC)
            \/ /\ findBoxDeep(ab, p + hdr, p + sz, fourCC) = <<>>
               /\ findBoxDeepThrows(ab, p + sz, to, fourCC)

InitWalk ==
  /\ pc = "bytes"
  /\ \E ps \in SeqsUpTo(WalkPieces, MaxPieces), cut \in CutSet :
       /\ cut <= Len(PiecesBytes(ps))
       /\ arg = [pieces |-> ps, cut |-> cut]
       /\ buf = SubSeq(PiecesBytes(ps), 1, Len(PiecesBytes(ps)) - cut)
  /\ ret = <<>>

\* Array.from(boxes(ab, from, to)) for a range inside the buffer.
WalkRange(from, to) ==
  /\ pc = "bytes"
  /\ from <= to /\ to <= Len(buf)
  /\ pc' = "walked"
  /\ ret' = [from |-> from, to |-> to, list |-> boxes(buf, from, to).list,
             threw |-> boxes(buf, from, to).threw]
  /\ UNCHANGED <<arg, buf>>

\* findBoxDeep(ab, 0, ab.byteLength, fourCC)
FindDeep(fourCC) ==
  /\ pc = "bytes"
  /\ pc' = "searched"
  /\ ret' = [fourCC |-> fourCC, hit |-> findBoxDeep(buf, 0, Len(buf), fourCC),
             threw |-> findBoxDeepThrows(buf, 0, Len(buf), fourCC)]
  /\ UNCHANGED <<arg, buf>>

NextWalk ==
  \/ \E from \in {0, 8}, back \in {0, 4} : WalkRange(from, Len(buf) - back)
  \/ \E fourCC \in {T_trak, T_mdat} : FindDeep(fourCC)

SpecWalk == InitWalk /\ [][NextWalk]_vars

\* C11: every descriptor the walker emits over a range [from, to) has
\* size >= header, end = start + size and end <= to, in the ordinary form
\* (header 8), the size = 1 extended form (header 16, 64-bit size) and the
\* size = 0 form (the box extends to the end of the range).
C11_DescriptorInvariant ==
  pc = "walked" =>
    \A i \in 1..Len(ret.list) :
      LET b == ret.list[i]
          s32 == be32(buf, b.start)
      IN /\ b.size >= b.header
         /\ b.end = b.start + b.size
         /\ b.end <= ret.to
         /\ b.start = IF i = 1 THEN ret.from ELSE ret.list[i - 1].end
         /\ b.type = fourcc(buf, b.start + 4)
         /\ b.header = IF s32 = 1 THEN 16 ELSE 8
         /\ s32 \notin {0, 1} => b.size = s32
         /\ s32 = 0 => b.end = ret.to
         /\ s32 = 1 => IF be64(buf, b.start + 8) = 0 THEN b.end = ret.to
                       ELSE b.size = be64(buf, b.start + 8)

C11_Witness ==
  /\ pc = "walked"
  /\ Len(ret.list) = 3
  /\ be32(buf, ret.list[1].start) = 12
  /\ ret.list[2].header = 16
  /\ be32(buf, ret.list[3].start) = 0
  /\ ret.list[3].end = ret.to

\* C12: the box walker never raises an error, for any byte buffer and any
\* range inside it, truncated buffers included; it stops emitting siblings
\* instead.
C12_WalkerNeverThrows ==
  /\ pc = "walked" => ~ret.threw
  /\ pc = "searched" => ~ret.threw

(***************************************************************************)
(* ImafExtensionCodec: decoders (iso/imaf.ts).  A parsed volume is held as *)
(* the signed Q8.8 integer read, i.e. the volume times 256.  Each parser   *)
(* returns whether it threw a RangeError (a read past the end of the       *)
(* buffer, or a view of negative length).                                  *)
(***************************************************************************)
clampLiteral(n, allowed, fallback) == IF n \in allowed THEN n ELSE fallback

asActivationMode(n) == clampLiteral(n, {0, 1, 2}, 0)

asPresetType(n) == 0

asSelectionRuleType(n) == clampLiteral(n, {0}, 0)

asMixingRuleType(n) == clampLiteral(n, {3}, 3)

\* A plausible slip: the volume is read unsigned.
getInt16_unsigned(ab, o) == be16(ab, o)

\* DataView.getInt16
getInt16(ab, o) == IF be16(ab, o) >= 32768 THEN be16(ab, o) - 65536 ELSE be16(ab, o)

\* The index of the first NUL in the view of limit bytes at start, or limit.
cstrEnd(ab, start, limit) ==
  IF \E k \in 0..(limit - 1) : ab[start + k + 1] = 0
  THEN CHOOSE k \in 0..(limit - 1) :
         ab[start + k + 1] = 0 /\ \A j \in 0..(k - 1) : ab[start + j + 1] # 0
  ELSE limit

readCStringAt(ab, start, limit, i) ==
  [text |-> SubSeq(ab, start + 1, start + i), next |-> start + Min(i + 1, limit)]

readCString(ab, start, limit) == readCStringAt(ab, start, limit, cstrEnd(ab, start, limit))

childrenAfter(ab, parent, skipBytes) ==
  boxes(ab, parent.start + parent.header + skipBytes, parent.end)

Take(seq, n) == SubSeq(seq, 1, Min(n, Len(seq)))

OfType(list, type) == SelectSeq(list, LAMBDA k : k.type = type)

be32s(ab, q, n) == [i \in 1..n |-> be32(ab, q + 4 * (i - 1))]

\* One grup box: q is the position after the element IDs, mode the clamped
\* activationMode, qv the position of referenceVolume.
grupStrings(ab, g, groupID, elementIDs, mode, count, refQ8_8, name) ==
  [threw |-> FALSE, groupID |-> groupID, elementIDs |-> elementIDs,
   activationMode |-> mode, activationCount |-> count, referenceVolume256 |-> refQ8_8,
   name |-> name.text,
   description |-> readCString(ab, name.next, g.end - name.next).text]

grupTail(ab, g, groupID, elementIDs, mode, count, qv) ==
  IF qv + 2 > Len(ab) \/ g.end - (qv + 2) < 0 THEN [threw |-> TRUE]
  ELSE grupStrings(ab, g, groupID, elementIDs, mode, count, getInt16(ab, qv),
                   readCString(ab, qv + 2, g.end - (qv + 2)))

grupMode(ab, g, groupID, elementIDs, mode, q) ==
  IF mode = 2 /\ q + 3 > Len(ab) THEN [threw |-> TRUE]
  ELSE grupTail(ab, g, groupID, elementIDs, mode,
                IF mode = 2 THEN <<be16(ab, q + 1)>> ELSE <<>>,
                IF mode = 2 THEN q + 3 ELSE q + 1)

grupElems(ab, g, q, elemCount) ==
  IF q + 6 + 4 * elemCount + 1 > Len(ab) THEN [threw |-> TRUE]
  ELSE grupMode(ab, g, be32(ab, q), be32s(ab, q + 6, elemCount),
                asActivationMode(ab[q + 6 + 4 * elemCount + 1]), q + 6 + 4 * elemCount)

parseGrup(ab, g) ==
  IF g.start + g.header + 10 > Len(ab) THEN [threw |-> TRUE]
  ELSE grupElems(ab, g, g.start + g.header + 4, be16(ab, g.start + g.header + 8))

parsedList(items) ==
  [threw |-> \E i \in 1..Len(items) : items[i].threw, list |-> items]

parseGrcoFrom(ab, grupBoxes) ==
  parsedList([i \in 1..Len(grupBoxes) |-> parseGrup(ab, grupBoxes[i])])

\* The result is [threw, list]: the groups in box order.
parseGrco(ab, grco) ==
  IF grco.start + grco.header + 2 > Len(ab) \/ childrenAfter(ab, grco, 2).threw
  THEN [threw |-> TRUE, list |-> <<>>]
  ELSE parseGrcoFrom(ab, Take(OfType(childrenAfter(ab, grco, 2).list, T_grup),
                              be16(ab, grco.start + grco.header)))

prstTail(ab, pbox, flags, presetID, elementIDs, q) ==
  IF q + 2 + Len(elementIDs) > Len(ab) \/ pbox.end - (q + 2 + Len(elementIDs)) < 0
  THEN [threw |-> TRUE]
  ELSE [threw |-> FALSE, presetID |-> presetID, elementIDs |-> elementIDs,
        presetType |-> asPresetType(ab[q + 1]), globalVolumeIndex |-> ab[q + 2],
        perElementVolumeIndex |-> [i \in 1..Len(elementIDs) |-> ab[q + 2 + i]],
        name |-> readCString(ab, q + 2 + Len(elementIDs),
                             pbox.end - (q + 2 + Len(elementIDs))).text,
        flags |-> flags]

prstElems(ab, pbox, q, elemCount) ==
  IF q + 6 + 4 * elemCount > Len(ab) THEN [threw |-> TRUE]
  ELSE prstTail(ab, pbox, be32(ab, q) % 16777216, ab[q + 5], be32s(ab, q + 6, elemCount),
                q + 6 + 4 * elemCount)

parsePrst(ab, pbox) ==
  IF pbox.start + pbox.header + 6 > Len(ab) THEN [threw |-> TRUE]
  ELSE prstElems(ab, pbox, pbox.start + pbox.header, ab[pbox.start + pbox.header + 6])

parsePrcoFrom(ab, steps, prstBoxes) ==
  [steps |-> steps] @@ parsedList([i \in 1..Len(prstBoxes) |-> parsePrst(ab, prstBoxes[i])])

\* The result is [threw, steps, list]: the presets in box order.
parsePrco(ab, prco) ==
  IF prco.start + prco.header + 2 > Len(ab) \/ childrenAfter(ab, prco, 2).threw
  THEN [threw |-> TRUE, steps |-> 0, list |-> <<>>]
  ELSE parsePrcoFrom(ab, ab[prco.start + prco.header + 2],
                     Take(OfType(childrenAfter(ab, prco, 2).list, T_prst),
                          ab[prco.start + prco.header + 1]))

(***************************************************************************)
(* Groups and presets: grcoBox and prcoBox, then parseGrco and parsePrco.  *)
(*                                                                         *)
(* arg holds the groups, the presets and globalPresetSteps; buf the two    *)
(* boxes built (or that prcoBox threw); ret the two parsed lists, or       *)
(* whether composeImaf threw when given the same lists as its IMAF spec.   *)
(***************************************************************************)
GroupSet ==
  {[groupID |-> 5, elementIDs |-> <<1, 2>>, activationMode |-> 1, activationCount |-> <<>>,
    referenceVolume |-> 1000, name |-> S_All, description |-> S_AllTracks],
   [groupID |-> 70000, elementIDs |-> <<2, 1>>, activationMode |-> 2,
    activationCount |-> <<3>>, referenceVolume |-> 1300, name |-> <<>>,
    description |-> <<100>>],
   [groupID |-> 0, elementIDs |-> <<>>, activationMode |-> 0, activationCount |-> <<>>,
    referenceVolume |-> -500, name |-> <<65>>, description |-> <<>>],
   [groupID |-> 6, elementIDs |-> <<9>>, activationMode |-> 1, activationCount |-> <<3>>,
    referenceVolume |-> 0, name |-> <<65, 66>>, description |-> <<67>>],
   [groupID |-> 8, elementIDs |-> <<1>>, activationMode |-> 2, activationCount |-> <<>>,
    referenceVolume |-> 2000, name |-> <<66>>, description |-> <<68>>]}

PresetSet ==
  {[presetID |-> 1, elementIDs |-> <<1, 2>>, presetType |-> 0, globalVolumeIndex |-> 100,
    perElementVolumeIndex |-> <<50, 255>>, name |-> S_DefaultMix, flags |-> <<2>>],
   [presetID |-> 255, elementIDs |-> <<>>, presetType |-> 0, globalVolumeIndex |-> 0,
    perElementVolumeIndex |-> <<>>, name |-> <<>>, flags |-> <<>>],
   [presetID |-> 2, elementIDs |-> <<3, 70000>>, presetType |-> 0, globalVolumeIndex |-> 255,
    perElementVolumeIndex |-> <<0, 7>>, name |-> <<77>>, flags |-> <<0>>],
   [presetID |-> 3, elementIDs |-> <<1, 2, 3>>, presetType |-> 0, globalVolumeIndex |-> 9,
    perElementVolumeIndex |-> <<50, 50>>, name |-> <<78>>, flags |-> <<2>>]}

prcoThrows(presets) == \E i \in 1..Len(presets) : ~prstValid(presets[i])

InitGrpr ==
  /\ pc = "groups"
  /\ \E gs \in SeqsUpTo(GroupSet, MaxList), ps \in SeqsUpTo(PresetSet, MaxList),
        steps \in {1, 255} :
       arg = [groups |-> gs, presets |-> ps, steps |-> steps]
  /\ buf = <<>>
  /\ ret = <<>>

BuildGrpr ==
  /\ pc = "groups"
  /\ pc' = "built"
  /\ buf' = [grco |-> grcoBox(arg.groups),
             prcoThrew |-> prcoThrows(arg.presets),
             prco |-> IF prcoThrows(arg.presets) THEN <<>>
                      ELSE prcoBox(arg.presets, arg.steps)]
  /\ UNCHANGED <<arg, ret>>

ParseGrpr ==
  /\ pc = "built"
  /\ ~buf.prcoThrew
  /\ pc' = "parsed"
  /\ ret' = [groups |-> parseGrco(buf.grco, TopBox(buf.grco)),
             presets |-> parsePrco(buf.prco, TopBox(buf.prco))]
  /\ UNCHANGED <<arg, buf>>

\* composeImaf with includeImaf = { groups, presets, globalPresetSteps }.
ComposeGrpr(layout) ==
  /\ pc = "groups"
  /\ pc' = "composed"
  /\ ret' = composeImaf(<<>>, [layout |-> layout, movieTimescale |-> 1000,
                               includeImaf |-> [kind |-> "spec",
                                                spec |-> [groups |-> <<arg.groups>>,
                                                          presets |-> <<arg.presets>>,
                                                          selectionRules |-> <<>>,
                                                          mixingRules |-> <<>>,
                                                          globalPresetSteps |-> <<arg.steps>>]],
                               subtitleTracks |-> <<>>, albumXml |-> <<>>,
                               songXml |-> <<>>, perTrackXml |-> <<>>])
  /\ UNCHANGED <<arg, buf>>

NextGrpr == BuildGrpr \/ ParseGrpr \/ \E layout \in Layouts : ComposeGrpr(layout)

SpecGrpr == InitGrpr /\ [][NextGrpr]_vars

\* The fields of a parsed group or preset that are also fields of the input.
GroupWireEqual(g, x) ==
  /\ ~x.threw
  /\ x.groupID = g.groupID
  /\ x.elementIDs = g.elementIDs
  /\ x.activationMode = g.activationMode
  /\ 1000 * x.referenceVolume256 - 256 * g.referenceVolume \in -500..500
  /\ x.name = g.name
  /\ x.description = g.description

PresetEqual(p, x) ==
  /\ ~x.threw
  /\ x.presetID = p.presetID
  /\ x.elementIDs = p.elementIDs
  /\ x.presetType = p.presetType
  /\ x.globalVolumeIndex = p.globalVolumeIndex
  /\ x.perElementVolumeIndex = p.perElementVolumeIndex
  /\ x.name = p.name

\* C13 as stated: parsing the grco and prco boxes built from groups and
\* presets reproduces every field exactly, activationCount included.
C13_AsStated ==
  pc = "parsed" =>
    /\ ~ret.groups.threw /\ Len(ret.groups.list) = Len(arg.groups)
    /\ \A i \in 1..Len(arg.groups) :
         /\ GroupWireEqual(arg.groups[i], ret.groups.list[i])
         /\ ret.groups.list[i].activationCount = arg.groups[i].activationCount
    /\ ~ret.presets.threw /\ Len(ret.presets.list) = Len(arg.presets)
    /\ \A i \in 1..Len(arg.presets) : PresetEqual(arg.presets[i], ret.presets.list[i])

\* C13, amended: parsing the grco and prco boxes built from groups and
\* presets reproduces group and preset IDs, element-ID order, activationMode,
\* referenceVolume to within Q8.8 rounding, globalVolumeIndex, per-element
\* volume indices, names and descriptions; activationCount is reproduced for
\* activationMode 2 (an absent count reads back as 0) and is absent from the
\* parsed group for activationMode 0 and 1.
C13_GroupPresetRoundTrip ==
  pc = "parsed" =>
    /\ ~ret.groups.threw /\ Len(ret.groups.list) = Len(arg.groups)
    /\ \A i \in 1..Len(arg.groups) :
         /\ GroupWireEqual(arg.groups[i], ret.groups.list[i])
         /\ ret.groups.list[i].activationCount =
              IF arg.groups[i].activationMode # 2 THEN <<>>
              ELSE IF arg.groups[i].activationCount = <<>> THEN <<0>>
              ELSE arg.groups[i].activationCount
    /\ ~ret.presets.threw /\ Len(ret.presets.list) = Len(arg.presets)
    /\ ret.presets.steps = arg.steps
    /\ \A i \in 1..Len(arg.presets) : PresetEqual(arg.presets[i], ret.presets.list[i])

C13_Witness ==
  /\ pc = "parsed"
  /\ Len(arg.groups) = 2 /\ Len(arg.presets) = 2
  /\ arg.groups[1].activationMode = 2 /\ arg.groups[1].activationCount = <<3>>
  /\ arg.groups[2].referenceVolume = -500
  /\ arg.presets[1].elementIDs = <<3, 70000>>
  /\ ret.groups.list[1].activationCount = <<3>>

\* C15: building a preset container, with prcoBox or through composeImaf
\* with an IMAF spec, from a list in which any preset has
\* len(perElementVolumeIndex) # len(elementIDs) raises an error and returns
\* no bytes, wherever the invalid preset stands in the list.
C15_InvalidPresetRejected ==
  (\E i \in 1..Len(arg.presets) :
     Len(arg.presets[i].perElementVolumeIndex) # Len(arg.presets[i].elementIDs)) =>
    /\ pc = "built" => buf.prcoThrew /\ buf.prco = <<>>
    /\ pc = "composed" => ret.threw /\ ret.bytes = <<>>
    /\ pc # "parsed"

C15_Witness ==
  /\ pc = "composed"
  /\ Len(arg.presets) = 2
  /\ Len(arg.presets[1].perElementVolumeIndex) = Len(arg.presets[1].elementIDs)
  /\ Len(arg.presets[2].perElementVolumeIndex) # Len(arg.presets[2].elementIDs)
  /\ ret.threw

(***************************************************************************)
(* parseRuco (iso/imaf.ts).  A parsed selection rule is a record threw,    *)
(* id, type, elementID, then min and max (type 0) or nothing more (type 2) *)
(* or the key element in elementID (other types), and desc; a parsed       *)
(* mixing rule holds minVol256 and maxVol256, the signed Q8.8 integers.    *)
(***************************************************************************)
\* q is the position of the rule's id, after the FullBox header.
parseRusc(ab, s, q, type) ==
  IF q + 7 > Len(ab) THEN [threw |-> TRUE]
  ELSE IF type = 0
  THEN IF q + 11 > Len(ab) \/ s.end - (q + 11) < 0 THEN [threw |-> TRUE]
       ELSE [threw |-> FALSE, id |-> be16(ab, q), type |-> type,
             elementID |-> be32(ab, q + 3), min |-> be16(ab, q + 7),
             max |-> be16(ab, q + 9), desc |-> readCString(ab, q + 11, s.end - (q + 11)).text]
  ELSE IF type = 2
  THEN IF s.end - (q + 7) < 0 THEN [threw |-> TRUE]
       ELSE [threw |-> FALSE, id |-> be16(ab, q), type |-> type,
             elementID |-> be32(ab, q + 3),
             desc |-> readCString(ab, q + 7, s.end - (q + 7)).text]
  ELSE IF q + 11 > Len(ab) \/ s.end - (q + 11) < 0 THEN [threw |-> TRUE]
       ELSE [threw |-> FALSE, id |-> be16(ab, q), type |-> type,
             elementID |-> be32(ab, q + 7),
             desc |-> readCString(ab, q + 11, s.end - (q + 11)).text]

parseRumx(ab, m, q, type) ==
  IF q + 7 > Len(ab) THEN [threw |-> TRUE]
  ELSE IF q + 11 > Len(ab) \/ m.end - (q + 11) < 0 THEN [threw |-> TRUE]
  ELSE IF type = 3
  THEN [threw |-> FALSE, id |-> be16(ab, q), type |-> type,
        elementID |-> be32(ab, q + 3), minVol256 |-> getInt16(ab, q + 7),
        maxVol256 |-> getInt16(ab, q + 9),
        desc |-> readCString(ab, q + 11, m.end - (q + 11)).text]
  ELSE [threw |-> FALSE, id |-> be16(ab, q), type |-> type,
        elementID |-> be32(ab, q + 7),
        desc |-> readCString(ab, q + 11, m.end - (q + 11)).text]

parseRuscAt(ab, s) ==
  IF s.start + s.header + 4 + 3 > Len(ab) THEN [threw |-> TRUE]
  ELSE parseRusc(ab, s, s.start + s.header + 4,
                 asSelectionRuleType(ab[s.start + s.header + 4 + 2 + 1]))

parseRumxAt(ab, m) ==
  IF m.start + m.header + 4 + 3 > Len(ab) THEN [threw |-> TRUE]
  ELSE parseRumx(ab, m, m.start + m.header + 4,
                 asMixingRuleType(ab[m.start + m.header + 4 + 2 + 1]))

parseRucoFrom(ab, rusc, rumx) ==
  [threw |-> \/ \E i \in 1..Len(rusc) : parseRuscAt(ab, rusc[i]).threw
             \/ \E i \in 1..Len(rumx) : parseRumxAt(ab, rumx[i]).threw,
   selectionRules |-> [i \in 1..Len(rusc) |-> parseRuscAt(ab, rusc[i])],
   mixingRules |-> [i \in 1..Len(rumx) |-> parseRumxAt(ab, rumx[i])]]

\* The result is [threw, selectionRules, mixingRules], in box order.
parseRuco(ab, ruco) ==
  IF ruco.start + ruco.header + 4 > Len(ab) \/ childrenAfter(ab, ruco, 4).threw
  THEN [threw |-> TRUE, selectionRules |-> <<>>, mixingRules |-> <<>>]
  ELSE parseRucoFrom(ab,
         Take(OfType(childrenAfter(ab, ruco, 4).list, T_rusc),
              be16(ab, ruco.start + ruco.header)),
         Take(OfType(childrenAfter(ab, ruco, 4).list, T_rumx),
              be16(ab, ruco.start + ruco.header + 2)))

(***************************************************************************)
(* Rule sets through rucoBox and parseRuco.                                *)
(***************************************************************************)
SelectionRuleSet ==
  { [id |-> 1, type |-> 0, elementID |-> 1, min |-> 1, max |-> 2, desc |-> <<97>>],
    [id |-> 2, type |-> 1, elementID |-> 1, keyElementID |-> 2, desc |-> <<98, 99>>],
    [id |-> 3, type |-> 2, elementID |-> 2, desc |-> <<100>>],
    [id |-> 4, type |-> 3, elementID |-> 2, keyElementID |-> 1, desc |-> <<>>] }

MixingRuleSet ==
  { [id |-> 1, type |-> 3, elementID |-> 1, minVol |-> 0, maxVol |-> 2000, desc |-> <<97>>],
    [id |-> 2, type |-> 3, elementID |-> 2, minVol |-> -500, maxVol |-> 1333, desc |-> <<>>],
    [id |-> 3, type |-> 0, elementID |-> 1, keyElementID |-> 2, desc |-> <<98>>],
    [id |-> 4, type |-> 1, elementID |-> 2, keyElementID |-> 1, desc |-> <<>>],
    [id |-> 5, type |-> 2, elementID |-> 1, keyElementID |-> 2, desc |-> <<99, 100>>] }

InitRuco ==
  /\ pc = "rules"
  /\ \E sel \in SeqsUpTo(SelectionRuleSet, MaxList), mix \in SeqsUpTo(MixingRuleSet, MaxList) :
       arg = [selection |-> sel, mixing |-> mix]
  /\ buf = <<>>
  /\ ret = <<>>

BuildRuco ==
  /\ pc = "rules"
  /\ pc' = "built"
  /\ buf' = rucoBox(arg.selection, arg.mixing)
  /\ UNCHANGED <<arg, ret>>

ParseRuco ==
  /\ pc = "built"
  /\ pc' = "parsed"
  /\ ret' = parseRuco(buf, TopBox(buf))
  /\ UNCHANGED <<arg, buf>>

NextRuco == BuildRuco \/ ParseRuco

SpecRuco == InitRuco /\ [][NextRuco]_vars

HasKey(r) == "keyElementID" \in DOMAIN r

SelectionRuleEqual(r, p) ==
  /\ ~p.threw
  /\ p.id = r.id /\ p.type = r.type /\ p.elementID = r.elementID /\ p.desc = r.desc
  /\ r.type = 0 => "min" \in DOMAIN p /\ p.min = r.min /\ p.max = r.max
  /\ HasKey(r) => HasKey(p) /\ p.keyElementID = r.keyElementID

MixingRuleEqual(r, p) ==
  /\ ~p.threw
  /\ p.id = r.id /\ p.type = r.type /\ p.elementID = r.elementID /\ p.desc = r.desc
  /\ r.type = 3 => /\ "minVol256" \in DOMAIN p
                   /\ 1000 * p.minVol256 - 256 * r.minVol \in -500..500
                   /\ 1000 * p.maxVol256 - 256 * r.maxVol \in -500..500
  /\ HasKey(r) => HasKey(p) /\ p.keyElementID = r.keyElementID

\* C14: every selection rule of type 0..3 and every mixing rule of type 0..3
\* comes back from parseRuco(rucoBox(...)) with its id, type, elementID,
\* keyElementID, min/max, minVol/maxVol (within Q8.8 rounding) and
\* description, in the original order.
C14_RuleRoundTrip ==
  pc = "parsed" =>
    /\ ~ret.threw
    /\ Len(ret.selectionRules) = Len(arg.selection)
    /\ Len(ret.mixingRules) = Len(arg.mixing)
    /\ \A i \in 1..Len(arg.selection) :
         SelectionRuleEqual(arg.selection[i], ret.selectionRules[i])
    /\ \A i \in 1..Len(arg.mixing) :
         MixingRuleEqual(arg.mixing[i], ret.mixingRules[i])

(***************************************************************************)
(* Enumerated bytes outside their range: one group, one preset, one        *)
(* selection rule and one mixing rule, written with the given              *)
(* activationMode, presetType and rule types, then parsed.                 *)
(***************************************************************************)
ActivationModeBytes == {0, 1, 2, 3, 255}
PresetTypeBytes == {0, 1, 255}
SelectionTypeBytes == {0, 4, 255}
MixingTypeBytes == {3, 4, 255}

EnumGroup(mode) ==
  [groupID |-> 5, elementIDs |-> <<1, 2>>, activationMode |-> mode,
   activationCount |-> <<>>, referenceVolume |-> 1000, name |-> S_All,
   description |-> S_AllTracks]

EnumPreset(presetType) ==
  [presetID |-> 1, elementIDs |-> <<1, 2>>, presetType |-> presetType,
   globalVolumeIndex |-> 100, perElementVolumeIndex |-> <<50, 255>>,
   name |-> S_DefaultMix, flags |-> <<>>]

EnumSelectionRule(type) ==
  IF type = 0 THEN defaultSelectionRule(5, 2)
  ELSE [id |-> 1, type |-> type, elementID |-> 5, keyElementID |-> 2, desc |-> S_AtLeast1]

EnumMixingRule(type) ==
  IF type = 3 THEN defaultMixingRule
  ELSE [id |-> 1, type |-> type, elementID |-> 1, keyElementID |-> 2, desc |-> S_Track1Volume]

InitEnum ==
  /\ pc = "enums"
  /\ \E mode \in ActivationModeBytes, presetType \in PresetTypeBytes,
        selType \in SelectionTypeBytes, mixType \in MixingTypeBytes :
       arg = [mode |-> mode, presetType |-> presetType, selType |-> selType,
              mixType |-> mixType]
  /\ buf = <<>>
  /\ ret = <<>>

BuildEnum ==
  /\ pc = "enums"
  /\ pc' = "built"
  /\ buf' = [grco |-> grcoBox(<<EnumGroup(arg.mode)>>),
             prco |-> prcoBox(<<EnumPreset(arg.presetType)>>, 1),
             ruco |-> rucoBox(<<EnumSelectionRule(arg.selType)>>,
                              <<EnumMixingRule(arg.mixType)>>)]
  /\ UNCHANGED <<arg, ret>>

ParseEnum ==
  /\ pc = "built"
  /\ pc' = "parsed"
  /\ ret' = [groups |-> parseGrco(buf.grco, TopBox(buf.grco)),
             presets |-> parsePrco(buf.prco, TopBox(buf.prco)),
             rules |-> parseRuco(buf.ruco, TopBox(buf.ruco))]
  /\ UNCHANGED <<arg, buf>>

NextEnum == BuildEnum \/ ParseEnum

SpecEnum == InitEnum /\ [][NextEnum]_vars

Distance(a, b) == IF a >= b THEN a - b ELSE b - a

Nearest(n, supported) ==
  CHOOSE v \in supported : \A w \in supported : Distance(v, n) <= Distance(w, n)

\* What the decoder yields for a byte: the byte if supported, else the
\* nearest supported value.
Clamped(n, supported) == IF n \in supported THEN n ELSE Nearest(n, supported)

\* C16: a group, preset or rule whose activationMode, presetType or rule type
\* byte is out of range is still decoded, without an error, and the byte is
\* replaced by the nearest supported value (activationMode 0..2, presetType
\* 0, rule types 0..3).
C16_OutOfRangeClamped ==
  pc = "parsed" =>
    /\ ~ret.groups.threw /\ ~ret.presets.threw /\ ~ret.rules.threw
    /\ Len(ret.groups.list) = 1 /\ Len(ret.presets.list) = 1
    /\ Len(ret.rules.selectionRules) = 1 /\ Len(ret.rules.mixingRules) = 1
    /\ ret.groups.list[1].activationMode = Clamped(arg.mode, {0, 1, 2})
    /\ ret.presets.list[1].presetType = Clamped(arg.presetType, {0})
    /\ ret.rules.selectionRules[1].type = Clamped(arg.selType, {0, 1, 2, 3})
    /\ ret.rules.mixingRules[1].type = Clamped(arg.mixType, {0, 1, 2, 3})

(***************************************************************************)
(* extractImafSpecFromIso (iso/imaf.ts).  The result is a record: result   *)
(* is "absent" (undefined), "spec" or "RangeError" (the call threw); each  *)
(* section of the spec is <<>> when missing, else <<value>>.               *)
(***************************************************************************)
NoImafSpec(result) ==
  [result |-> result, groups |-> <<>>, presets |-> <<>>, globalPresetSteps |-> <<>>,
   selectionRules |-> <<>>, mixingRules |-> <<>>]

\* kids/child of iso/imaf.ts: the payload starts right after the header.
imafChild(ks, typ) == Take(OfType(ks, typ), 1)

\* g, p, r: zero or one box each; the parsers run on those present.
imafSections(ab, g, p, r) ==
  IF g = <<>> /\ p = <<>> /\ r = <<>> THEN NoImafSpec("absent")
  ELSE IF \/ g # <<>> /\ parseGrco(ab, g[1]).threw
          \/ p # <<>> /\ parsePrco(ab, p[1]).threw
          \/ r # <<>> /\ parseRuco(ab, r[1]).threw
  THEN NoImafSpec("RangeError")
  ELSE [result |-> "spec",
        groups |-> IF g = <<>> THEN <<>> ELSE <<parseGrco(ab, g[1]).list>>,
        presets |-> IF p = <<>> THEN <<>> ELSE <<parsePrco(ab, p[1]).list>>,
        globalPresetSteps |-> IF p = <<>> THEN <<>> ELSE <<parsePrco(ab, p[1]).steps>>,
        selectionRules |-> IF r = <<>> THEN <<>> ELSE <<parseRuco(ab, r[1]).selectionRules>>,
        mixingRules |-> IF r = <<>> THEN <<>> ELSE <<parseRuco(ab, r[1]).mixingRules>>]

imafInMoov(ab, ks) ==
  IF ks.threw THEN NoImafSpec("RangeError")
  ELSE imafSections(ab, imafChild(ks.list, T_grco), imafChild(ks.list, T_prco),
                    imafChild(ks.list, T_ruco))

\* The loop over boxes(ab) stops at the first moov, so a read past the end
\* of the buffer only throws when no moov came before it.
imafTop(ab, top, moovs) ==
  IF moovs = <<>>
  THEN NoImafSpec(IF top.threw THEN "RangeError" ELSE "absent")
  ELSE imafInMoov(ab, boxes(ab, moovs[1].start + moovs[1].header, moovs[1].end))

extractImafSpecFromIso(ab) ==
  imafTop(ab, boxes(ab, 0, Len(ab)), firstMoov(boxes(ab, 0, Len(ab))))

(***************************************************************************)
(* Buffers for extractImafSpecFromIso: a movie box (of type moov, of        *)
(* another type, or none) holding any of the three IMAF boxes as direct    *)
(* children, one possibly nested in udta, one possibly next to the movie   *)
(* box, and possibly a last size-1 header cut off before its 64-bit size.  *)
(***************************************************************************)
SectionNames == {"grco", "prco", "ruco"}

SectionBox(name) ==
  IF name = "grco" THEN grcoBox(<<EnumGroup(1)>>)
  ELSE IF name = "prco" THEN prcoBox(<<EnumPreset(0)>>, 1)
  ELSE IF name = "ruco" THEN rucoBox(<<EnumSelectionRule(0)>>, <<EnumMixingRule(3)>>)
  ELSE <<>>

CutHeader == Uint32Bytes(1) \o T_udta

MovieBytes(a) ==
  box(IF a.movie = "moov" THEN T_moov ELSE T_trak,
      box(T_mvhd, pad(4))
      \o (IF "grco" \in a.direct THEN SectionBox("grco") ELSE <<>>)
      \o (IF a.nested = "none" THEN <<>> ELSE box(T_udta, SectionBox(a.nested)))
      \o (IF "prco" \in a.direct THEN SectionBox("prco") ELSE <<>>)
      \o (IF "ruco" \in a.direct THEN SectionBox("ruco") ELSE <<>>))

IsoBytes(a) ==
  ftypBox
  \o (IF a.movie = "none" THEN <<>> ELSE MovieBytes(a))
  \o SectionBox(a.beside)
  \o (IF a.cut THEN CutHeader ELSE <<>>)

InitExtract ==
  /\ pc = "sections"
  /\ \E direct \in SUBSET SectionNames, nested \in {"none", "grco", "ruco"},
        beside \in {"none", "prco"}, movie \in {"moov", "other", "none"},
        cut \in BOOLEAN :
       arg = [direct |-> direct, nested |-> nested, beside |-> beside,
              movie |-> movie, cut |-> cut]
  /\ buf = <<>>
  /\ ret = <<>>

BuildIso ==
  /\ pc = "sections"
  /\ pc' = "built"
  /\ buf' = IsoBytes(arg)
  /\ UNCHANGED <<arg, ret>>

ExtractImafSpec ==
  /\ pc = "built"
  /\ pc' = "extracted"
  /\ ret' = extractImafSpecFromIso(buf)
  /\ UNCHANGED <<arg, buf>>

NextExtract == BuildIso \/ ExtractImafSpec

SpecExtract == InitExtract /\ [][NextExtract]_vars

HasMoov(a) == a.movie = "moov"

\* C17: extractImafSpecFromIso returns undefined, without an error, when the
\* buffer has no top-level moov or the moov has none of grco, prco, ruco as a
\* direct child; otherwise it returns a spec holding exactly the sections
\* whose boxes are direct children of moov.
C17_ExtractAbsentOrExact ==
  pc = "extracted" =>
    IF ~HasMoov(arg) \/ arg.direct = {}
    THEN ret.result = "absent"
    ELSE /\ ret.result = "spec"
         /\ (ret.groups # <<>>) <=> ("grco" \in arg.direct)
         /\ (ret.presets # <<>>) <=> ("prco" \in arg.direct)
         /\ (ret.globalPresetSteps # <<>>) <=> ("prco" \in arg.direct)
         /\ (ret.selectionRules # <<>>) <=> ("ruco" \in arg.direct)
         /\ (ret.mixingRules # <<>>) <=> ("ruco" \in arg.direct)

(***************************************************************************)
(* The MP3 sample entry (codecs/mp3.ts): mp4a with an esds of object type  *)
(* 0x6B and an empty DecoderSpecificInfo.                                  *)
(***************************************************************************)
descrTag(t, payload) == <<t % 256>> \o vlen(Len(payload)) \o payload

buildEsds(objectTypeIndication, dsi) ==
  box(T_esds,
      u32(0)
      \o descrTag(3, <<0, 0>> \o <<0>>
                     \o descrTag(4, <<objectTypeIndication, 21, 0, 0, 0, 0>>
                                    \o descrTag(5, dsi))))

mp3SampleEntry(sampleRate, channelCount) ==
  box(T_mp4a,
      pad(6) \o u16(1)
      \o u32(0) \o u32(0) \o u32(0)
      \o u16(channelCount) \o u16(16) \o u16(0) \o u16(0)
      \o u32(sampleRate * 65536)
      \o buildEsds(107, <<>>))

(***************************************************************************)
(* Codec discrimination: AAC and MP3 tracks muxed by composeImaf and read  *)
(* back by readIma.                                                        *)
(***************************************************************************)
Codecs == {"aac", "aac-legacy", "mp3"}

\* A track as parseAdtsFile (with or without makeSampleEntry) or
\* parseMp3File hands it over.
CodecTrack(codec, t, sizes) ==
  [sampleRate |-> 8000, sizes |-> sizes, frameCount |-> Len(sizes),
   frames |-> FramesOf(t, sizes),
   mdhdDuration |-> Len(sizes) * (IF codec = "mp3" THEN 576 ELSE 1024),
   samplesPerFrame |-> IF codec = "mp3" THEN <<576>> ELSE <<>>,
   makeSampleEntry |-> IF codec = "mp3" THEN <<mp3SampleEntry(8000, 1)>>
                       ELSE IF codec = "aac" THEN <<mp4aSampleEntry(8000, 1, Asc)>>
                       ELSE <<>>,
   asc |-> IF codec = "mp3" THEN <<>> ELSE <<Asc>>,
   channelConfig |-> IF codec = "mp3" THEN <<>> ELSE <<1>>]

InitCodec ==
  /\ pc = "tracks"
  /\ \E codecs \in SeqsUpTo(Codecs, MaxAudio) \ {<<>>},
        sizes \in SeqsUpTo(FrameSizeSet, MaxFrames), layout \in Layouts :
       arg = [codecs |-> codecs,
              tracks |-> [i \in 1..Len(codecs) |-> CodecTrack(codecs[i], i, Rot(sizes, i - 1))],
              opts |-> [layout |-> layout, movieTimescale |-> 1000,
                        includeImaf |-> [kind |-> "false"], subtitleTracks |-> <<>>,
                        albumXml |-> <<>>, songXml |-> <<>>, perTrackXml |-> <<>>]]
  /\ buf = <<>>
  /\ ret = <<>>

ComposeCodec ==
  /\ pc = "tracks"
  /\ pc' = "composed"
  /\ buf' = composeImaf(arg.tracks, arg.opts)
  /\ UNCHANGED <<arg, ret>>

ReadCodec ==
  /\ pc = "composed"
  /\ ~buf.threw
  /\ pc' = "read"
  /\ ret' = readIma(buf.bytes)
  /\ UNCHANGED <<arg, buf>>

NextCodec == ComposeCodec \/ ReadCodec

SpecCodec == InitCodec /\ [][NextCodec]_vars

\* C18: an mp4a track whose esds carries object type 0x6B, as written by the
\* MP3 sample-entry builder, is reported with kind "mp3"; one whose esds
\* carries another object type and a DecoderSpecificInfo, as written by the
\* AAC sample-entry builder, is reported with kind "aac" and asc equal to the
\* DecoderSpecificInfo bytes.
C18_CodecDiscrimination ==
  pc = "read" =>
    /\ ret.error = "none"
    /\ Len(ret.audio) = Len(arg.codecs)
    /\ \A i \in 1..Len(arg.codecs) :
         IF arg.codecs[i] = "mp3" THEN ret.audio[i].kind = "mp3"
         ELSE ret.audio[i].kind = "aac" /\ ret.audio[i].asc = <<Asc>>

(***************************************************************************)
(* Tracks without a producible SampleEntry (specification Spec).           *)
(***************************************************************************)
Unbuildable(t) == t.makeSampleEntry = <<>> /\ (t.asc = <<>> \/ t.channelConfig = <<>>)

\* C19: when any audio track has neither makeSampleEntry nor both legacy
\* fields (asc and channelConfig), composeImaf throws and returns no bytes,
\* in the mdat-first and in the moov-first layout.
C19_UnbuildableTrackRejected ==
  \A layout \in DOMAIN buf :
    (\E i \in 1..Len(arg.tracks) : Unbuildable(arg.tracks[i])) =>
      buf[layout].threw /\ buf[layout].bytes = <<>>

C19_Witness ==
  /\ DOMAIN buf = Layouts
  /\ Len(arg.tracks) = 2
  /\ ~Unbuildable(arg.tracks[1])
  /\ Unbuildable(arg.tracks[2])
  /\ NonEmpty(arg.tracks[2].frames)
  /\ \A layout \in Layouts : buf[layout].threw

(***************************************************************************)
(* Per-track soft failure: a container from composeImaf in which one trak  *)
(* has lost its mdia, hdlr, mdhd or stbl (the box is still there but under *)
(* the type 'free'), read by readIma.                                      *)
(***************************************************************************)
T_free == <<102, 114, 101, 101>>

RequiredBoxes == {T_mdia, T_hdlr, T_mdhd, T_stbl}

\* The box of the given type that readIma would look up in the trak.
RequiredBox(ab, trak, type) ==
  IF type = T_mdia THEN child(ab, trak, T_mdia)[1]
  ELSE IF type = T_stbl
  THEN child(ab, child(ab, child(ab, trak, T_mdia)[1], T_minf)[1], T_stbl)[1]
  ELSE child(ab, child(ab, trak, T_mdia)[1], type)[1]

Retyped(ab, b, type) ==
  [i \in 1..Len(ab) |-> IF i \in (b.start + 5)..(b.start + 8) THEN type[i - b.start - 4]
                        ELSE ab[i]]

InitSoft ==
  /\ pc = "tracks"
  /\ \E nA \in 0..MaxAudio, nS \in 0..MaxSubs, sizes \in SeqsUpTo(FrameSizeSet, MaxFrames),
        layout \in Layouts :
       /\ nA + nS >= 1
       /\ arg = [tracks |-> [i \in 1..nA |-> AudioTrack(i, Rot(sizes, i - 1), FALSE)],
                 opts |-> [layout |-> layout, movieTimescale |-> 1000,
                           includeImaf |-> [kind |-> "false"],
                           subtitleTracks |->
                             [j \in 1..nS |-> SubTrack(nA + j, Rot(sizes, j - 1))],
                           albumXml |-> <<>>, songXml |-> <<>>, perTrackXml |-> <<>>]]
  /\ buf = <<>>
  /\ ret = <<>>

ComposeSoft ==
  /\ pc = "tracks"
  /\ pc' = "composed"
  /\ buf' = [orig |-> composeImaf(arg.tracks, arg.opts).bytes, victim |-> 0,
             missing |-> <<>>, bytes |-> composeImaf(arg.tracks, arg.opts).bytes]
  /\ UNCHANGED <<arg, ret>>

DropRequiredBox ==
  /\ pc = "composed"
  /\ pc' = "damaged"
  /\ \E v \in 1..Len(TraksOf(buf.orig)), type \in RequiredBoxes :
       buf' = [buf EXCEPT !.victim = v, !.missing = type,
                          !.bytes = Retyped(buf.orig,
                                            RequiredBox(buf.orig, TraksOf(buf.orig)[v], type),
                                            T_free)]
  /\ UNCHANGED <<arg, ret>>

ReadSoft ==
  /\ pc = "damaged"
  /\ pc' = "read"
  /\ ret' = readIma(buf.bytes)
  /\ UNCHANGED <<arg, buf>>

NextSoft == ComposeSoft \/ DropRequiredBox \/ ReadSoft

SpecSoft == InitSoft /\ [][NextSoft]_vars

RemoveAt(seq, v) ==
  IF v \in 1..Len(seq) THEN SubSeq(seq, 1, v - 1) \o SubSeq(seq, v + 1, Len(seq)) ELSE seq

\* C20: when one trak lacks mdia, hdlr, mdhd or stbl, readIma raises no error
\* and returns exactly the tracks it returns for the intact container, less
\* that trak, in file order.
C20_SoftFailure ==
  pc = "read" =>
    /\ readIma(buf.orig).error = "none"
    /\ Len(Dumps(readIma(buf.orig))) = Len(TraksOf(buf.orig))
    /\ ret.error = "none"
    /\ ret.audio = RemoveAt(readIma(buf.orig).audio, buf.victim)
    /\ ret.texts = RemoveAt(readIma(buf.orig).texts,
                            buf.victim - Len(readIma(buf.orig).audio))

C20_Witness ==
  /\ pc = "read"
  /\ Len(TraksOf(buf.orig)) >= 2
  /\ buf.victim = 1
  /\ buf.missing = T_stbl
  /\ Len(ret.audio) + Len(ret.texts) = Len(TraksOf(buf.orig)) - 1
  /\ \E i \in 1..Len(ret.audio) : NonEmpty(ret.audio[i].frames)

(***************************************************************************)
(* demuxImaToArtifacts (demux/demux-helpers.ts): the extension of each     *)
(* audio artifact and the counts; an error of readIma propagates.          *)
(***************************************************************************)
\* (f2 & 0xFFE0) === 0xFFE0 on the 32-bit two's complement of f2.
looksMP3(f2) == ((f2 % 65536) \div 32) * 32 = 65504

\* The dumps of readIma always carry sampleRate, channels and bits for lpcm.
audioExtension(a) ==
  IF a.kind = "mp3" \/ looksMP3(IF a.first2 = <<>> THEN -1 ELSE a.first2[1]) THEN "mp3"
  ELSE IF a.kind = "aac" THEN "aac"
  ELSE IF a.kind = "lpcm" THEN "wav"
  ELSE "bin"

demuxArtifacts(r, wantAudio) ==
  IF r.error # "none" THEN [error |-> r.error, audio |-> <<>>, counts |-> <<>>]
  ELSE [error |-> "none",
        audio |-> IF wantAudio THEN [i \in 1..Len(r.audio) |-> audioExtension(r.audio[i])]
                  ELSE <<>>,
        counts |-> <<Len(r.audio), Len(r.texts)>>]

demuxImaToArtifacts(ab, wantAudio) == demuxArtifacts(readIma(ab), wantAudio)

(***************************************************************************)
(* Buffers of top-level boxes with or without a moov, demuxed.             *)
(***************************************************************************)
TopLevelBoxes ==
  {ftypBox, box(T_mdat, <<1, 2>>), box(T_free, <<>>), box(T_moov, <<>>),
   box(T_udta, box(T_moov, <<>>))}

InitTop ==
  /\ pc = "buffer"
  /\ \E bs \in SeqsUpTo(TopLevelBoxes, MaxPieces) : arg = Flatten(bs)
  /\ buf = <<>>
  /\ ret = <<>>

ReadTop ==
  /\ pc = "buffer"
  /\ pc' = "read"
  /\ ret' = readIma(arg)
  /\ UNCHANGED <<arg, buf>>

DemuxTop ==
  /\ pc = "buffer"
  /\ pc' = "demuxed"
  /\ ret' = demuxImaToArtifacts(arg, TRUE)
  /\ UNCHANGED <<arg, buf>>

NextTop == ReadTop \/ DemuxTop

SpecTop == InitTop /\ [][NextTop]_vars

\* C21: readIma, and demuxImaToArtifacts which calls it, raise no error for a
\* buffer that holds no top-level moov box.
C21_NoMoovIsSoft ==
  pc \in {"read", "demuxed"} /\ TopOfType(arg, T_moov) = <<>> => ret.error = "none"

(***************************************************************************)
(* Integers that do not fit their field, given to u32, stsz, stco and      *)
(* prcoBox.  The result of an encoder is [threw, bytes].                   *)
(***************************************************************************)
OutOfRangeNumbers == {-2147483647, -1, 0, 1, 2147483647}
PresetIDs == {1, 255, 256, 511}
VolumeIndices == {0, 255, 256}
ElementCounts == {0, 1, 2}
PresetCounts == {1, 2}

EncPreset(a, k) ==
  [presetID |-> a.presetID + k - 1, elementIDs |-> [i \in 1..a.nElems |-> i],
   presetType |-> 0, globalVolumeIndex |-> a.globalVolumeIndex,
   perElementVolumeIndex |-> [i \in 1..a.nElems |-> a.volumeIndex],
   name |-> <<>>, flags |-> <<>>]

InitEnc ==
  /\ pc = "numbers"
  /\ \E n \in OutOfRangeNumbers, presetID \in PresetIDs, g \in VolumeIndices,
        v \in VolumeIndices, nElems \in ElementCounts, nPresets \in PresetCounts :
       /\ nElems = 0 => v = 0
       /\ arg = [n |-> n, presetID |-> presetID, globalVolumeIndex |-> g,
                 volumeIndex |-> v, nElems |-> nElems, nPresets |-> nPresets]
  /\ buf = <<>>
  /\ ret = <<>>

WriteU32 ==
  /\ pc = "numbers"
  /\ pc' = "u32"
  /\ ret' = IF u32InRange(arg.n) THEN [threw |-> FALSE, bytes |-> u32(arg.n)]
            ELSE [threw |-> TRUE, bytes |-> <<>>]
  /\ UNCHANGED <<arg, buf>>

WriteStsz ==
  /\ pc = "numbers"
  /\ pc' = "stsz"
  /\ ret' = [threw |-> FALSE, bytes |-> stsz(<<arg.n>>)]
  /\ UNCHANGED <<arg, buf>>

WriteStco ==
  /\ pc = "numbers"
  /\ pc' = "stco"
  /\ ret' = [threw |-> FALSE, bytes |-> stco(<<arg.n>>)]
  /\ UNCHANGED <<arg, buf>>

WritePrco ==
  /\ pc = "numbers"
  /\ pc' = "prco"
  /\ ret' = IF prcoThrows([k \in 1..arg.nPresets |-> EncPreset(arg, k)])
            THEN [threw |-> TRUE, bytes |-> <<>>]
            ELSE [threw |-> FALSE,
                  bytes |-> prcoBox([k \in 1..arg.nPresets |-> EncPreset(arg, k)], 1)]
  /\ UNCHANGED <<arg, buf>>

NextEnc == WriteU32 \/ WriteStsz \/ WriteStco \/ WritePrco

SpecEnc == InitEnc /\ [][NextEnc]_vars

\* C22: an integer that does not fit its field makes the encoder raise: u32
\* outside [0, 2^32-1], a sample size or chunk offset outside that range in
\* stsz and stco, and a preset ID or volume index above 255 in prst and
\* prco; none is written wrapped or truncated.
C22_OutOfRangeRejected ==
  /\ pc \in {"u32", "stsz", "stco"} /\ arg.n < 0 => ret.threw
  /\ pc = "prco" /\ (\/ arg.presetID + arg.nPresets - 1 > 255
                     \/ arg.globalVolumeIndex > 255
                     \/ arg.nElems > 0 /\ arg.volumeIndex > 255) => ret.threw

(***************************************************************************)
(* The five-sample scenario: one audio track whose sizes are a prefix of   *)
(* [100,120,110,130,105], muxed in layout "ftyp-mdat-moov" and read back.  *)
(***************************************************************************)
ScenarioSizes == <<100, 120, 110, 130, 105>>

InitScenario ==
  /\ pc = "track"
  /\ \E n \in 0..Len(ScenarioSizes), imaf \in {"false", "true"}, t \in {1, 2},
        nS \in 0..MaxSubs :
       arg = [tracks |-> <<AudioTrack(t, SubSeq(ScenarioSizes, 1, n), FALSE)>>,
              opts |-> [layout |-> "ftyp-mdat-moov", movieTimescale |-> 1000,
                        includeImaf |-> [kind |-> imaf],
                        subtitleTracks |-> [j \in 1..nS |-> SubTrack(2 + j, <<2>>)],
                        albumXml |-> <<>>, songXml |-> <<>>, perTrackXml |-> <<>>]]
  /\ buf = <<>>
  /\ ret = <<>>

ComposeScenario ==
  /\ pc = "track"
  /\ pc' = "composed"
  /\ buf' = composeImaf(arg.tracks, arg.opts)
  /\ UNCHANGED <<arg, ret>>

ReadScenario ==
  /\ pc = "composed"
  /\ pc' = "read"
  /\ ret' = readIma(buf.bytes)
  /\ UNCHANGED <<arg, buf>>

NextScenario == ComposeScenario \/ ReadScenario

SpecScenario == InitScenario /\ [][NextScenario]_vars

\* The entries of the stco box of a trak.
StcoEntries(ab, trak) == readChunkOffsets(ab, trakBoxes(ab, trak)[1].stco, <<>>)

\* C23: one audio track with sizes [100,120,110,130,105] muxed in layout
\* "ftyp-mdat-moov" gets an stco with exactly one entry, equal to
\* len(ftyp)+8.
C23_SingleChunkOffset ==
  pc \in {"composed", "read"} /\ arg.tracks[1].sizes = ScenarioSizes =>
    StcoEntries(buf.bytes, TraksOf(buf.bytes)[1]) = <<buf.ftypLen + 8>>

(***************************************************************************)
(* The layout stsz writes (specification SpecStsz).                        *)
(***************************************************************************)
AllEqual(sizes) == \A i \in 1..Len(sizes) : sizes[i] = sizes[1]

\* C24: for sizes that are all equal the stsz encoder stores the size once
\* as the default sample size, with the sample count and no per-sample
\* entries; for sizes that differ it writes one entry per sample.
C24_DefaultSizeOptimization ==
  pc \in {"stsz_built", "stsz_read"} /\ arg.form = "sizes" /\ arg.sizes # <<>> =>
    IF AllEqual(arg.sizes) /\ arg.sizes[1] # 0
    THEN buf = stszDefaultForm(arg.sizes[1], Len(arg.sizes))
    ELSE /\ be32(buf, 12) = 0
         /\ be32(buf, 16) = Len(arg.sizes)
         /\ Len(buf) = 20 + 4 * Len(arg.sizes)

(***************************************************************************)
(* The routines that enumerate the children of a box: kids and child of    *)
(* the container reader (above), kids and child of iso/imaf.ts, find and   *)
(* findAll of the timed-text reader, and findBoxDeep.                      *)
(***************************************************************************)
imafKids(ab, parent) == boxes(ab, parent.start + parent.header, parent.end).list

RECURSIVE find(_, _, _)
find(ab, parent, path) ==
  IF path = <<>> THEN <<parent>>
  ELSE IF OfType(boxes(ab, parent.start + parent.header, parent.end).list, Head(path)) = <<>>
  THEN <<>>
  ELSE find(ab, OfType(boxes(ab, parent.start + parent.header, parent.end).list,
                       Head(path))[1], Tail(path))

findAll(ab, parent, type) ==
  OfType(boxes(ab, parent.start + parent.header, parent.end).list, type)

(***************************************************************************)
(* A parent box of type meta (a FullBox: version and flags, then the       *)
(* children) or of a plain type (the children only), and each routine      *)
(* asked for its children.                                                 *)
(***************************************************************************)
ParentTypes == {T_meta, T_udta, T_trak}

ChildBoxes == {box(T_hdlr, <<1>>), box(T_xml, <<2, 3>>), box(T_free, <<>>)}

ParentBox(type, children) ==
  box(type, (IF type = T_meta THEN full(0, 0) ELSE <<>>) \o Flatten(children))

InitKids ==
  /\ pc = "parent"
  /\ \E type \in ParentTypes, children \in SeqsUpTo(ChildBoxes, MaxPieces),
        wanted \in {T_hdlr, T_xml} :
       /\ arg = [type |-> type, children |-> children, wanted |-> wanted]
       /\ buf = ParentBox(type, children)
  /\ ret = <<>>

ReaderKids ==
  /\ pc = "parent"
  /\ pc' = "kids"
  /\ ret' = kids(buf, TopBox(buf))
  /\ UNCHANGED <<arg, buf>>

ReaderChild ==
  /\ pc = "parent"
  /\ pc' = "child"
  /\ ret' = child(buf, TopBox(buf), arg.wanted)
  /\ UNCHANGED <<arg, buf>>

ImafKids ==
  /\ pc = "parent"
  /\ pc' = "imaf.kids"
  /\ ret' = imafKids(buf, TopBox(buf))
  /\ UNCHANGED <<arg, buf>>

ImafChild ==
  /\ pc = "parent"
  /\ pc' = "imaf.child"
  /\ ret' = imafChild(imafKids(buf, TopBox(buf)), arg.wanted)
  /\ UNCHANGED <<arg, buf>>

TextFind ==
  /\ pc = "parent"
  /\ pc' = "find"
  /\ ret' = find(buf, TopBox(buf), <<arg.wanted>>)
  /\ UNCHANGED <<arg, buf>>

TextFindAll ==
  /\ pc = "parent"
  /\ pc' = "findAll"
  /\ ret' = findAll(buf, TopBox(buf), arg.wanted)
  /\ UNCHANGED <<arg, buf>>

DeepFind ==
  /\ pc = "parent"
  /\ pc' = "findBoxDeep"
  /\ ret' = findBoxDeep(buf, 0, Len(buf), arg.wanted)
  /\ UNCHANGED <<arg, buf>>

NextKids ==
  ReaderKids \/ ReaderChild \/ ImafKids \/ ImafChild \/ TextFind \/ TextFindAll \/ DeepFind

SpecKids == InitKids /\ [][NextKids]_vars

\* Where the children of the parent start: 4 bytes after the header for
\* meta, right after the header otherwise.
ChildrenStart(b) == IF b.type = T_meta THEN b.start + b.header + 4 ELSE b.start + b.header

ChildrenOf(ab, b) == boxes(ab, ChildrenStart(b), b.end).list

\* C25: every routine that enumerates the children of a box starts 4 bytes
\* after the header for a meta parent and right after the header for any
\* other parent, so each of them returns the parent's actual children.
C25_MetaOffsetUniform ==
  /\ pc \in {"kids", "imaf.kids"} => ret = ChildrenOf(buf, TopBox(buf))
  /\ pc \in {"child", "imaf.child", "find"} =>
       ret = Take(OfType(ChildrenOf(buf, TopBox(buf)), arg.wanted), 1)
  /\ pc = "findAll" => ret = OfType(ChildrenOf(buf, TopBox(buf)), arg.wanted)
  /\ pc = "findBoxDeep" =>
       ret = [i \in 1..Len(Take(OfType(ChildrenOf(buf, TopBox(buf)), arg.wanted), 1)) |->
                [off |-> OfType(ChildrenOf(buf, TopBox(buf)), arg.wanted)[1].start,
                 size |-> OfType(ChildrenOf(buf, TopBox(buf)), arg.wanted)[1].size]]

(***************************************************************************)
(* The debug namespaces of the container reader.  DEBUG is a variable of   *)
(* the reader's module: it outlives the call that sets it.  A token is a   *)
(* string (a tuple of character codes).                                    *)
(***************************************************************************)
NsAll == <<42>>

NsIma == <<105, 109, 97>>

NsTree == <<116, 114, 101, 101>>

NsXml == <<120, 109, 108>>

RECURSIVE trimStart(_)
trimStart(s) == IF s # <<>> /\ Head(s) = 32 THEN trimStart(Tail(s)) ELSE s

RECURSIVE trimEnd(_)
trimEnd(s) == IF s # <<>> /\ s[Len(s)] = 32 THEN trimEnd(SubSeq(s, 1, Len(s) - 1)) ELSE s

trim(s) == trimEnd(trimStart(s))

\* configureDemuxDebug(tokens): the trimmed tokens, the empty ones dropped.
configureDemuxDebug(tokens) == {trim(tokens[i]) : i \in 1..Len(tokens)} \ {<<>>}

\* dbg(ns, ...) and the guards of the tree and xml dumps.
debugOn(DEBUG, ns) == NsAll \in DEBUG \/ ns \in DEBUG

\* The first statements of readIma: opts is <<>> (no debug option) or
\* <<tokens>>; the result is the value of DEBUG after the call and the
\* namespaces that wrote to the console.
readImaDebug(DEBUG, opts) ==
  [DEBUG |-> IF opts # <<>> THEN configureDemuxDebug(opts[1]) ELSE DEBUG,
   out   |-> {ns \in {NsIma, NsTree, NsXml} :
                debugOn(IF opts # <<>> THEN configureDemuxDebug(opts[1]) ELSE DEBUG, ns)}]

DebugTokens == {NsAll, NsIma, NsTree, NsXml, <<32>> \o NsTree, <<32>>, <<>>}

DebugOptions == {<<>>} \cup {<<tokens>> : tokens \in SeqsUpTo(DebugTokens, MaxList)}

\* In this specification buf holds the module state of the reader (DEBUG),
\* arg the options of the last call and ret what that call logged.
InitDebug ==
  /\ pc = "loaded"
  /\ arg = <<>>
  /\ buf = [DEBUG |-> {}]
  /\ ret = {}

ConfigureDebug ==
  /\ \E tokens \in SeqsUpTo(DebugTokens, MaxList) :
       /\ arg' = <<tokens>>
       /\ buf' = [DEBUG |-> configureDemuxDebug(tokens)]
  /\ pc' = "configureDemuxDebug"
  /\ ret' = {}

ReadWithDebug ==
  /\ \E opts \in DebugOptions :
       /\ arg' = opts
       /\ buf' = [DEBUG |-> readImaDebug(buf.DEBUG, opts).DEBUG]
       /\ ret' = readImaDebug(buf.DEBUG, opts).out
  /\ pc' = "readIma"

NextDebug == ConfigureDebug \/ ReadWithDebug

SpecDebug == InitDebug /\ [][NextDebug]_vars

\* C26: a readIma call that is given no debug option writes no debug output,
\* whatever options earlier calls were given.
C26_NoAmbientDebug == pc = "readIma" /\ arg = <<>> => ret = {}

(***************************************************************************)
(* The box walker and findBoxDeep, one loop iteration at a time.  buf is   *)
(* the call stack: one frame for the walker (its cursor off and bound to), *)
(* one frame per active call of findBoxDeep (its cursor p, its bound to    *)
(* and, while a nested call runs, the size sz of the box it descended      *)
(* into).                                                                  *)
(***************************************************************************)
\* The header checks both loops make at cursor off with bound to: the loop
\* condition, the DataView reads, size 1 and size 0 (boxHeader), and the
\* break (headerChecked).
\* A plausible slip: only end > to is checked, not size < hdr.
headerChecked_nominimum(type, size, hdr, off, to) ==
  IF size > to - off
  THEN [status |-> "break", type |-> type, start |-> off, size |-> size,
        header |-> hdr, end |-> off]
  ELSE [status |-> "box", type |-> type, start |-> off, size |-> size,
        header |-> hdr, end |-> off + size]

headerChecked(type, size, hdr, off, to) ==
  IF size < hdr \/ size > to - off
  THEN [status |-> "break", type |-> type, start |-> off, size |-> size,
        header |-> hdr, end |-> off]
  ELSE [status |-> "box", type |-> type, start |-> off, size |-> size,
        header |-> hdr, end |-> off + size]

boxHeader(ab, off, to) ==
  IF off + 8 > to
  THEN [status |-> "end", type |-> <<>>, start |-> off, size |-> 0, header |-> 0, end |-> off]
  ELSE IF off + 8 > Len(ab) \/ (be32(ab, off) = 1 /\ off + 16 > Len(ab))
  THEN [status |-> "threw", type |-> <<>>, start |-> off, size |-> 0, header |-> 0, end |-> off]
  ELSE IF be32(ab, off) = 1
  THEN headerChecked(fourcc(ab, off + 4),
                     IF be64(ab, off + 8) = 0 THEN to - off ELSE be64(ab, off + 8),
                     16, off, to)
  ELSE headerChecked(fourcc(ab, off + 4),
                     IF be32(ab, off) = 0 THEN to - off ELSE be32(ab, off),
                     8, off, to)

\* Header shapes as in WalkPieces; a size of 16 or 24 makes the piece the
\* parent of what follows it.
StepPieces ==
  {[s |-> 0, e |-> <<>>, p |-> 0], [s |-> 7, e |-> <<>>, p |-> 0],
   [s |-> 8, e |-> <<>>, p |-> 0], [s |-> 16, e |-> <<>>, p |-> 0],
   [s |-> 24, e |-> <<>>, p |-> 0], [s |-> 1, e |-> <<>>, p |-> 0],
   [s |-> 1, e |-> <<0, 0>>, p |-> 0], [s |-> 1, e |-> <<0, 16>>, p |-> 0]}

InitSteps ==
  /\ pc = "start"
  /\ \E ps \in SeqsUpTo(StepPieces, MaxPieces), fourCC \in {T_moov, T_trak, T_free} :
       arg = [ab |-> PiecesBytes(ps), fourCC |-> fourCC]
  /\ buf = <<>>
  /\ ret = [list |-> <<>>, threw |-> FALSE]

Top(stack) == stack[Len(stack)]

\* The Box the walker yields for an accepted header.
yielded(h) ==
  [type |-> h.type, start |-> h.start, size |-> h.size, header |-> h.header, end |-> h.end]

StartWalk ==
  /\ pc = "start"
  /\ pc' = "boxes"
  /\ buf' = <<[off |-> 0, to |-> Len(arg.ab)]>>
  /\ UNCHANGED <<arg, ret>>

WalkYield ==
  /\ pc = "boxes"
  /\ boxHeader(arg.ab, buf[1].off, buf[1].to).status = "box"
  /\ ret' = [list |-> Append(ret.list, yielded(boxHeader(arg.ab, buf[1].off, buf[1].to))),
             threw |-> FALSE]
  /\ buf' = <<[off |-> boxHeader(arg.ab, buf[1].off, buf[1].to).end, to |-> buf[1].to]>>
  /\ UNCHANGED <<pc, arg>>

WalkEnd ==
  /\ pc = "boxes"
  /\ boxHeader(arg.ab, buf[1].off, buf[1].to).status # "box"
  /\ pc' = "done"
  /\ ret' = [list |-> ret.list,
             threw |-> boxHeader(arg.ab, buf[1].off, buf[1].to).status = "threw"]
  /\ UNCHANGED <<arg, buf>>

StartSearch ==
  /\ pc = "start"
  /\ pc' = "findBoxDeep"
  /\ buf' = <<[p |-> 0, to |-> Len(arg.ab), sz |-> 0]>>
  /\ UNCHANGED <<arg, ret>>

SearchHit ==
  /\ pc = "findBoxDeep"
  /\ boxHeader(arg.ab, Top(buf).p, Top(buf).to).status = "box"
  /\ boxHeader(arg.ab, Top(buf).p, Top(buf).to).type = arg.fourCC
  /\ pc' = "done"
  /\ ret' = [list |-> <<[off |-> Top(buf).p,
                          size |-> boxHeader(arg.ab, Top(buf).p, Top(buf).to).size]>>,
             threw |-> FALSE]
  /\ UNCHANGED <<arg, buf>>

SearchDescend ==
  /\ pc = "findBoxDeep"
  /\ boxHeader(arg.ab, Top(buf).p, Top(buf).to).status = "box"
  /\ boxHeader(arg.ab, Top(buf).p, Top(buf).to).type # arg.fourCC
  /\ buf' = SubSeq(buf, 1, Len(buf) - 1)
            \o <<[p |-> Top(buf).p, to |-> Top(buf).to,
                  sz |-> boxHeader(arg.ab, Top(buf).p, Top(buf).to).size],
                 [p |-> Top(buf).p + boxHeader(arg.ab, Top(buf).p, Top(buf).to).header,
                  to |-> Top(buf).p + boxHeader(arg.ab, Top(buf).p, Top(buf).to).size,
                  sz |-> 0]>>
  /\ UNCHANGED <<pc, arg, ret>>

\* The loop of the innermost call ends without a hit: the call returns
\* undefined and its caller moves on to the next sibling (p += sz).
SearchReturn ==
  /\ pc = "findBoxDeep"
  /\ boxHeader(arg.ab, Top(buf).p, Top(buf).to).status \in {"end", "break"}
  /\ IF Len(buf) = 1
     THEN pc' = "done" /\ buf' = buf
     ELSE /\ pc' = pc
          /\ buf' = SubSeq(buf, 1, Len(buf) - 2)
                    \o <<[p |-> buf[Len(buf) - 1].p + buf[Len(buf) - 1].sz,
                          to |-> buf[Len(buf) - 1].to, sz |-> 0]>>
  /\ UNCHANGED <<arg, ret>>

SearchThrow ==
  /\ pc = "findBoxDeep"
  /\ boxHeader(arg.ab, Top(buf).p, Top(buf).to).status = "threw"
  /\ pc' = "done"
  /\ ret' = [list |-> <<>>, threw |-> TRUE]
  /\ UNCHANGED <<arg, buf>>

NextSteps ==
  \/ StartWalk \/ WalkYield \/ WalkEnd
  \/ StartSearch \/ SearchHit \/ SearchDescend \/ SearchReturn \/ SearchThrow

SpecSteps == InitSteps /\ [][NextSteps]_vars

\* Both routines are sequential loops: an iteration that can run does run.
SpecStepsFair == SpecSteps /\ WF_vars(NextSteps)

\* What is left for the loops to do: the bytes between the cursor and the
\* bound, for the walker and for each active call of findBoxDeep.
C27_Progress ==
  /\ pc = "boxes" /\ pc' = "boxes" =>
       /\ buf'[1].off >= buf[1].off + 8
       /\ ret'.list[Len(ret'.list)].size >= 8
  /\ pc = "findBoxDeep" /\ pc' = "findBoxDeep" /\ Len(buf') > Len(buf) =>
       /\ Top(buf').p >= Top(buf).p + 8
       /\ Top(buf').to <= Top(buf).to
       /\ Top(buf').to - Top(buf').p < Top(buf).to - Top(buf).p
  /\ pc = "findBoxDeep" /\ pc' = "findBoxDeep" /\ Len(buf') < Len(buf) =>
       /\ Top(buf').p >= buf[Len(buf')].p + 8
       /\ Top(buf').p <= Top(buf').to
       /\ Top(buf').to = buf[Len(buf')].to

\* C27: the walker and findBoxDeep terminate on every input: every box they
\* accept is at least 8 bytes long, so the cursor strictly increases, each
\* recursive call works on a strictly smaller range, and every walk and
\* every search comes to its end.
C27_WalkersTerminate == [][C27_Progress]_vars /\ <>(pc = "done")

\* A search that went into a box and came to its end.
C27_Witness == pc = "done" /\ Len(buf) >= 2 /\ ret.list # <<>>

(***************************************************************************)
(* Sample tables that place fewer samples than stsz lists: a container     *)
(* from composeImaf in which one trak has lost its stco (the box is still  *)
(* there but under the type 'free') or the last entry of its stco (the     *)
(* entry count is one less), read by readIma.                              *)
(***************************************************************************)
Patched(ab, o, bytes) ==
  [i \in 1..Len(ab) |-> IF i \in (o + 1)..(o + Len(bytes)) THEN bytes[i - o] ELSE ab[i]]

StcoOf(ab, trak) == child(ab, RequiredBox(ab, trak, T_stbl), T_stco)[1]

InitShort ==
  /\ pc = "tracks"
  /\ \E nA \in 1..MaxAudio, sizes \in SeqsUpTo(FrameSizeSet, MaxFrames), layout \in Layouts :
       arg = [tracks |-> [i \in 1..nA |-> AudioTrack(i, Rot(sizes, i - 1), FALSE)],
              opts |-> [layout |-> layout, movieTimescale |-> 1000,
                        includeImaf |-> [kind |-> "false"], subtitleTracks |-> <<>>,
                        albumXml |-> <<>>, songXml |-> <<>>, perTrackXml |-> <<>>]]
  /\ buf = <<>>
  /\ ret = <<>>

ComposeShort ==
  /\ pc = "tracks"
  /\ pc' = "composed"
  /\ buf' = [orig |-> composeImaf(arg.tracks, arg.opts).bytes, victim |-> 0,
             bytes |-> composeImaf(arg.tracks, arg.opts).bytes]
  /\ UNCHANGED <<arg, ret>>

DropChunkTable ==
  /\ pc = "composed"
  /\ pc' = "short"
  /\ \E v \in 1..Len(TraksOf(buf.orig)) :
       buf' = [buf EXCEPT !.victim = v,
                          !.bytes = Retyped(buf.orig, StcoOf(buf.orig, TraksOf(buf.orig)[v]),
                                            T_free)]
  /\ UNCHANGED <<arg, ret>>

ShortenChunkTable ==
  /\ pc = "composed"
  /\ pc' = "short"
  /\ \E v \in 1..Len(TraksOf(buf.orig)) :
       /\ be32(buf.orig, StcoOf(buf.orig, TraksOf(buf.orig)[v]).start + 12) >= 1
       /\ buf' = [buf EXCEPT
                    !.victim = v,
                    !.bytes = Patched(buf.orig,
                                      StcoOf(buf.orig, TraksOf(buf.orig)[v]).start + 12,
                                      Uint32Bytes(be32(buf.orig,
                                        StcoOf(buf.orig, TraksOf(buf.orig)[v]).start + 12) - 1))]
  /\ UNCHANGED <<arg, ret>>

ReadShort ==
  /\ pc \in {"composed", "short"}
  /\ pc' = "read"
  /\ ret' = readIma(buf.bytes)
  /\ UNCHANGED <<arg, buf>>

NextShort == ComposeShort \/ DropChunkTable \/ ShortenChunkTable \/ ReadShort

SpecShort == InitShort /\ [][NextShort]_vars

\* C28: every sample view readIma returns starts at the offset the resolver
\* computed for that sample; for a sample the tables do not place there is no
\* such offset, and readIma returns no bytes taken from another position.
C28_ViewsAtResolvedOffsets ==
  pc = "read" /\ ret.error = "none" =>
    \A t \in 1..Len(ret.audio) :
      \A i \in 1..Len(ret.audio[t].frames) :
        /\ i <= Len(ret.audio[t].offs)
        /\ ret.audio[t].frames[i] = u8v(buf.bytes, ret.audio[t].offs[i], ret.audio[t].sizes[i])

(***************************************************************************)
(* Audio tracks whose first sample is absent, shorter than two bytes,      *)
(* starts with an MPEG audio sync word or starts with other bytes, muxed   *)
(* by composeImaf and demuxed by demuxImaToArtifacts.                      *)
(***************************************************************************)
DemuxFrames == {<<>>, <<255>>, <<255, 251>>, <<255, 241>>, <<33, 16>>}

DemuxTrack(t, frames) ==
  [AudioTrack(t, [i \in 1..Len(frames) |-> Len(frames[i])], FALSE) EXCEPT !.frames = frames]

InitDemux ==
  /\ pc = "tracks"
  /\ \E nA \in 1..MaxAudio, frames \in SeqsUpTo(DemuxFrames, MaxFrames), layout \in Layouts :
       arg = [tracks |-> [i \in 1..nA |-> DemuxTrack(i, Rot(frames, i - 1))],
              opts |-> [layout |-> layout, movieTimescale |-> 1000,
                        includeImaf |-> [kind |-> "false"], subtitleTracks |-> <<>>,
                        albumXml |-> <<>>, songXml |-> <<>>, perTrackXml |-> <<>>]]
  /\ buf = <<>>
  /\ ret = <<>>

ComposeDemux ==
  /\ pc = "tracks"
  /\ pc' = "composed"
  /\ buf' = composeImaf(arg.tracks, arg.opts)
  /\ UNCHANGED <<arg, ret>>

DemuxAudio ==
  /\ pc = "composed"
  /\ pc' = "demuxed"
  /\ \E wantAudio \in BOOLEAN : ret' = demuxImaToArtifacts(buf.bytes, wantAudio)
  /\ UNCHANGED <<arg, buf>>

NextDemux == ComposeDemux \/ DemuxAudio

SpecDemux == InitDemux /\ [][NextDemux]_vars

\* The first two bytes of the track's first sample form an MPEG audio sync
\* word (eleven bits set).
SyncFirst(a) ==
  /\ a.frames # <<>>
  /\ Len(a.frames[1]) >= 2
  /\ a.frames[1][1] = 255
  /\ a.frames[1][2] >= 224

\* C29: demuxImaToArtifacts names an audio artifact .mp3 only if the track's
\* kind is "mp3" or its first two bytes form an MPEG sync word; a track of
\* kind "aac" with no samples, or with a first sample shorter than two bytes,
\* is emitted as .aac.
C29_Mp3OnlyWhenMp3 ==
  pc = "demuxed" /\ ret.error = "none" =>
    \A t \in 1..Len(ret.audio) :
      /\ ret.audio[t] = "mp3" =>
           readIma(buf.bytes).audio[t].kind = "mp3" \/ SyncFirst(readIma(buf.bytes).audio[t])
      /\ /\ readIma(buf.bytes).audio[t].kind = "aac"
         /\ \/ readIma(buf.bytes).audio[t].frames = <<>>
            \/ Len(readIma(buf.bytes).audio[t].frames[1]) < 2
         => ret.audio[t] = "aac"

(***************************************************************************)
(* Containers of one to five tracks: the track IDs of their tkhd boxes and *)
(* next_track_ID, the last field of mvhd.                                  *)
(***************************************************************************)
AudioCounts == {1, 2, 3, 4}

InitTracks ==
  /\ pc = "tracks"
  /\ \E nA \in AudioCounts, nS \in 0..MaxSubs, sizes \in SeqsUpTo(FrameSizeSet, 1),
        imaf \in {"false", "true"}, layout \in Layouts :
       arg = [tracks |-> [i \in 1..nA |-> AudioTrack(i, sizes, FALSE)],
              opts |-> [layout |-> layout, movieTimescale |-> 1000,
                        includeImaf |-> [kind |-> imaf],
                        subtitleTracks |-> [j \in 1..nS |-> SubTrack(nA + j, sizes)],
                        albumXml |-> <<>>, songXml |-> <<>>, perTrackXml |-> <<>>]]
  /\ buf = <<>>
  /\ ret = <<>>

ComposeTracks ==
  /\ pc = "tracks"
  /\ pc' = "composed"
  /\ buf' = composeImaf(arg.tracks, arg.opts)
  /\ ret' = [i \in 1..Len(TraksOf(composeImaf(arg.tracks, arg.opts).bytes)) |->
               TrackIdOf(composeImaf(arg.tracks, arg.opts).bytes,
                         TraksOf(composeImaf(arg.tracks, arg.opts).bytes)[i])]
  /\ UNCHANGED arg

NextTracks == ComposeTracks

SpecTracks == InitTracks /\ [][NextTracks]_vars

\* next_track_ID: the last 32-bit field of the mvhd box.
NextTrackIdOf(ab) == be32(ab, child(ab, TopOfType(ab, T_moov)[1], T_mvhd)[1].end - 4)

\* C30: in every container the muxer produces, next_track_ID in mvhd is
\* greater than the track ID of every tkhd.
C30_NextTrackIdAboveAll ==
  pc = "composed" /\ ~buf.threw =>
    \A i \in 1..Len(ret) : ret[i] < NextTrackIdOf(buf.bytes)

====
